---- MODULE Spec2Model ----
(***************************************************************************)
(* bayes_streaks: the two-stage event pipeline (ingress consumer, state-   *)
(* update consumer), the per-event-type processors, the player registry    *)
(* and the end-of-match derivations, modelled from src/app.                *)
(*                                                                         *)
(* Conventions.  An absent string (Python None) is the string None; an     *)
(* absent number or list is the empty tuple Absent, a present one <<x>>.   *)
(* A Redis hash is a function from the names of the fields it holds to     *)
(* their values; a store family is a function from the keys that exist.    *)
(* A timestamp is the epoch second datetime.fromisoformat(..).timestamp()  *)
(* yields for the event's ISO string.                                      *)
(***************************************************************************)
EXTENDS Integers, Sequences, FiniteSets, TLC

VARIABLES
  events_queue,      \* broker queue "game_events": message bodies, head first
  updates_queue,     \* broker queue "game_state_updates": event ids, head first
  raw_events,        \* store, <EV>:event:<id> hashes: id -> hash
  next_uuid,         \* the ids uuid4 has handed out so far
  running,           \* the process (both consumer tasks) is alive
  game,              \* store, <ST>:game:<m> hashes
  team,              \* store, <ST>:game:<m>:team:<t> hashes
  player,            \* store, <ST>:game:<m>:player:<p> hashes
  kill_history,      \* store, ...:player:<p>:kill_history sorted sets
  death_history,     \* store, ...:player:<p>:death_history sorted sets
  reg_matches,       \* PlayerRegistry._matches
  reg_teams,         \* PlayerRegistry._teams
  published,         \* history: bodies put on game_events, in order
  ingested,          \* history: what ingress did with each consumed body
  processed,         \* history: ids the state-update consumer handled, in order
  delivered_events,  \* messages at the head of game_events the broker has
                     \* delivered to the ingress consumer, not yet acknowledged
  delivered_updates, \* the same for game_state_updates and its consumer
  fn_input,          \* the arguments of a derivation function under study
  fn_output,         \* its result, Absent until it has been computed
  end_task,          \* the state-update consumer inside MatchEndProcessor: what
                     \* it has still to write, Absent when it is not in it
  reader             \* a call of GameState.from_database between two of its
                     \* awaits: what it has read so far, Absent when none runs

vars == <<events_queue, updates_queue, raw_events, next_uuid, running, game, team,
          player, kill_history, death_history, reg_matches, reg_teams, published,
          ingested, processed, delivered_events, delivered_updates, fn_input, fn_output,
          end_task, reader>>

(***************************************************************************)
(* Bounds of the model.                                                    *)
(***************************************************************************)
MaxEvents == 4      \* bodies published in a run of the pipeline
MaxSteps == 4       \* events fed through in a run of the processors
MaxKills == 8       \* timestamps in a list given to calculate_kill_streaks
MaxSpreeKills == 3  \* records in a kill history given to calculate_max_killing_spree
MaxDeaths == 2      \* timestamps in a death history given to calculate_max_killing_spree
MaxStored == 30     \* absolute value of an integer given to max_killing_spree_label

(***************************************************************************)
(* Optional values.                                                        *)
(***************************************************************************)
None == "None"
Absent == << >>
Some(x) == <<x>>
Has(o) == o # Absent
Get(o) == o[1]

Max2(a, b) == IF a >= b THEN a ELSE b

(***************************************************************************)
(* Program constants.                                                      *)
(***************************************************************************)
kill_streak_time_window == 10
FirstBloodSentinel == -1

(***************************************************************************)
(* Hashes and store families.                                              *)
(***************************************************************************)
EmptyMap == [k \in {} |-> 0]

\* HSET key mapping / dict.update: the fields of new replace those of old.
Merge(new, old) ==
  [f \in (DOMAIN new) \cup (DOMAIN old) |-> IF f \in DOMAIN new THEN new[f] ELSE old[f]]

\* HGETALL: the empty mapping for a key that does not exist.
HGetAll(fam, key) == IF key \in DOMAIN fam THEN fam[key] ELSE EmptyMap

HSetFam(fam, key, mapping) == Merge((key :> Merge(mapping, HGetAll(fam, key))), fam)

\* HINCRBY: a missing key or field counts as 0.
HIncrByFam(fam, key, field, delta) ==
  LET h == HGetAll(fam, key)
      old == IF field \in DOMAIN h THEN h[field] ELSE 0
  IN HSetFam(fam, key, (field :> old + delta))

\* ZADD key {member: score}: a sorted set holds a member once.
ZAddFam(fam, key, member) ==
  Merge((key :> ((IF key \in DOMAIN fam THEN fam[key] ELSE {}) \cup {member})), fam)

ZMembers(fam, key) == IF key \in DOMAIN fam THEN fam[key] ELSE {}

(***************************************************************************)
(* The state the processors work on, as one record s:                      *)
(*   game, team, player, kill, death : the store families                  *)
(*   matches, teams                  : the PlayerRegistry                  *)
(*   raised                          : an exception left process_event     *)
(***************************************************************************)
Raise(s) == [s EXCEPT !.raised = TRUE]

\* PlayerRegistry
register_player(s, player_id, match_id, team_id) ==
  [s EXCEPT !.matches = Merge((player_id :> [match_id |-> match_id, team_id |-> team_id]), @),
            !.teams = Merge((team_id :> match_id), @)]

get_match_id_for_player(s, player_id) ==
  IF player_id \in DOMAIN s.matches THEN s.matches[player_id].match_id ELSE None

get_match_id_for_team(s, team_id) ==
  IF team_id \in DOMAIN s.teams THEN s.teams[team_id] ELSE None

get_team_id(s, player_id) ==
  IF player_id \in DOMAIN s.matches THEN s.matches[player_id].team_id ELSE None

players_for_team(s, team_id) ==
  {p \in DOMAIN s.matches : s.matches[p].team_id = team_id}

players_for_match(s, match_id) ==
  {p \in DOMAIN s.matches : s.matches[p].match_id = match_id}

\* Key helpers: KeyFails is the ValueError branch, the key is match-qualified.
get_game_state_key(match_id) == match_id

TeamKeyFails(s, team_id) == get_match_id_for_team(s, team_id) = None
get_team_state_key(s, team_id) == <<get_match_id_for_team(s, team_id), team_id>>

PlayerKeyFails(s, player_id) == get_match_id_for_player(s, player_id) = None
get_player_state_key(s, player_id) == <<get_match_id_for_player(s, player_id), player_id>>
get_player_kill_history_key(s, player_id) == get_player_state_key(s, player_id)
get_player_death_history_key(s, player_id) == get_player_state_key(s, player_id)

\* A write that stores the amount in place of adding it.
SetPlayer(s, key, field, amount) ==
  IF ~Has(amount) THEN Raise(s)
  ELSE [s EXCEPT !.player = HSetFam(@, key, (field :> Get(amount)))]

\* redis.hincrby on a player or team hash; an amount of None is a DataError.
IncrPlayer(s, key, field, amount) ==
  IF ~Has(amount) THEN Raise(s)
  ELSE [s EXCEPT !.player = HIncrByFam(@, key, field, Get(amount))]

IncrTeam(s, key, field, amount) ==
  [s EXCEPT !.team = HIncrByFam(@, key, field, amount)]

\* A kill history that keeps a kill only if none with a later timestamp is in it.
add_kill_history_in_arrival_order(s, history_key, timestamp, kill_type) ==
  IF \E k \in ZMembers(s.kill, history_key) : k.timestamp > timestamp THEN s
  ELSE [s EXCEPT !.kill = ZAddFam(@, history_key, [timestamp |-> timestamp, kill_type |-> kill_type])]

\* utils.add_kill_history: zadd of {timestamp, kill_type} scored by timestamp.
add_kill_history(s, history_key, timestamp, kill_type) ==
  [s EXCEPT !.kill = ZAddFam(@, history_key, [timestamp |-> timestamp, kill_type |-> kill_type])]

(***************************************************************************)
(* Derivation functions (utils.py).                                        *)
(***************************************************************************)
\* strftime("%Y-%m-%d %H:%M:%S") of the UTC time of an epoch second.
FormatTimestamp(t) ==
  [day |-> t \div 86400, hour |-> (t % 86400) \div 3600,
   minute |-> (t % 3600) \div 60, second |-> t % 60]

StreakName(n) ==
  CASE n = 2 -> "Double Kill"
    [] n = 3 -> "Triple Kill"
    [] n = 4 -> "Quadra Kill"
    [] n = 5 -> "Penta Kill"

StreakLabel(n, t) == [label |-> StreakName(n), at |-> FormatTimestamp(t)]

\* An inner loop that measures the gap from the first kill of the run.
RECURSIVE ExtendRunFromFirst(_, _, _, _)
ExtendRunFromFirst(kill_timestamps, j, len, streak_window) ==
  IF j <= Len(kill_timestamps)
     /\ (kill_timestamps[j] - kill_timestamps[j - len]) <= streak_window
     /\ len < 5
  THEN ExtendRunFromFirst(kill_timestamps, j + 1, len + 1, streak_window)
  ELSE j

\* An inner loop that ends the run at four kills.
RECURSIVE ExtendRunCapFour(_, _, _, _)
ExtendRunCapFour(kill_timestamps, j, len, streak_window) ==
  IF j <= Len(kill_timestamps)
     /\ (kill_timestamps[j] - kill_timestamps[j - 1]) <= streak_window
     /\ len < 4
  THEN ExtendRunCapFour(kill_timestamps, j + 1, len + 1, streak_window)
  ELSE j

\* An inner loop that continues a run only on a gap below the window.
RECURSIVE ExtendRunStrict(_, _, _, _)
ExtendRunStrict(kill_timestamps, j, len, streak_window) ==
  IF j <= Len(kill_timestamps)
     /\ (kill_timestamps[j] - kill_timestamps[j - 1]) < streak_window
     /\ len < 5
  THEN ExtendRunStrict(kill_timestamps, j + 1, len + 1, streak_window)
  ELSE j

\* The inner while loop: j is the next index to look at, len the run's length.
RECURSIVE ExtendRun(_, _, _, _)
ExtendRun(kill_timestamps, j, len, streak_window) ==
  IF j <= Len(kill_timestamps)
     /\ (kill_timestamps[j] - kill_timestamps[j - 1]) <= streak_window
     /\ len < 5
  THEN ExtendRun(kill_timestamps, j + 1, len + 1, streak_window)
  ELSE j

\* The outer while loop, from index i (1-based).
RECURSIVE StreaksFrom(_, _, _)
StreaksFrom(kill_timestamps, i, streak_window) ==
  IF i > Len(kill_timestamps) THEN << >>
  ELSE LET j == ExtendRun(kill_timestamps, i + 1, 1, streak_window)
           streak_length == j - i
       IN (IF streak_length >= 2
           THEN <<StreakLabel(streak_length, kill_timestamps[j - 1])>>
           ELSE << >>)
          \o StreaksFrom(kill_timestamps, j, streak_window)

calculate_kill_streaks(kill_timestamps, streak_window) ==
  StreaksFrom(kill_timestamps, 1, streak_window)

\* A death loop that moves past the deaths before a kill only.
RECURSIVE PassDeathsStrict(_, _, _)
PassDeathsStrict(st, kill, deaths) ==
  IF st.death_index < Len(deaths) /\ kill > deaths[st.death_index + 1]
  THEN PassDeathsStrict([streak |-> 0,
                         max_streak |-> Max2(st.max_streak, st.streak),
                         death_index |-> st.death_index + 1], kill, deaths)
  ELSE st

\* The while loop that moves past the deaths at or before a kill.
RECURSIVE PassDeaths(_, _, _)
PassDeaths(st, kill, deaths) ==
  IF st.death_index < Len(deaths) /\ kill >= deaths[st.death_index + 1]
  THEN PassDeaths([streak |-> 0,
                   max_streak |-> Max2(st.max_streak, st.streak),
                   death_index |-> st.death_index + 1], kill, deaths)
  ELSE st

\* A kill loop that counts every kill, deaths remaining or not.
RECURSIVE SpreeLoopCountingAll(_, _, _, _)
SpreeLoopCountingAll(st, human_kills, i, deaths) ==
  IF i > Len(human_kills) THEN st
  ELSE LET a == PassDeaths(st, human_kills[i], deaths)
           b == [a EXCEPT !.streak = @ + 1]
       IN SpreeLoopCountingAll(b, human_kills, i + 1, deaths)

RECURSIVE SpreeLoop(_, _, _, _)
SpreeLoop(st, human_kills, i, deaths) ==
  IF i > Len(human_kills) THEN st
  ELSE LET a == PassDeaths(st, human_kills[i], deaths)
           b == IF a.death_index < Len(deaths)
                THEN [a EXCEPT !.streak = @ + 1]
                ELSE a
       IN SpreeLoop(b, human_kills, i + 1, deaths)

IsHuman(kill) == kill.kill_type = "human"

calculate_max_killing_spree(kill_hist, death_hist) ==
  LET humans == SelectSeq(kill_hist, IsHuman)
      human_kills == [i \in 1..Len(humans) |-> humans[i].timestamp]
      st == SpreeLoop([streak |-> 0, max_streak |-> 0, death_index |-> 0],
                      human_kills, 1, death_hist)
  IN Max2(st.max_streak, st.streak)

\* A label that clamps the stored value into 3..7 from both sides.
max_killing_spree_label_clamped(max_killing_spree) ==
  LET n == IF max_killing_spree > 7 THEN 7
           ELSE IF max_killing_spree < 3 THEN 3
           ELSE max_killing_spree
  IN CASE n = 3 -> "Killing Spree"
       [] n = 4 -> "Rampage"
       [] n = 5 -> "Unstoppable"
       [] n = 6 -> "Dominating"
       [] n = 7 -> "Godlike"
       [] OTHER -> None

\* A label without the cap at 7.
max_killing_spree_label_uncapped(max_killing_spree) ==
  CASE max_killing_spree = 3 -> "Killing Spree"
    [] max_killing_spree = 4 -> "Rampage"
    [] max_killing_spree = 5 -> "Unstoppable"
    [] max_killing_spree = 6 -> "Dominating"
    [] max_killing_spree = 7 -> "Godlike"
    [] OTHER -> None

\* utils.max_killing_spree_label: label_map.get of the value capped at 7.
max_killing_spree_label(max_killing_spree) ==
  LET n == IF max_killing_spree > 7 THEN 7 ELSE max_killing_spree
  IN CASE n = 3 -> "Killing Spree"
       [] n = 4 -> "Rampage"
       [] n = 5 -> "Unstoppable"
       [] n = 6 -> "Dominating"
       [] n = 7 -> "Godlike"
       [] OTHER -> None

(***************************************************************************)
(* ZRANGE key 0 -1: ascending by score, equal scores by member.            *)
(***************************************************************************)
KillTypeRank(k) == CASE k = "dragon" -> 1 [] k = "human" -> 2 [] k = "minion" -> 3

KillBefore(a, b) ==
  \/ a.timestamp < b.timestamp
  \/ a.timestamp = b.timestamp /\ KillTypeRank(a.kill_type) <= KillTypeRank(b.kill_type)

RECURSIVE ZRangeKills(_)
ZRangeKills(S) ==
  IF S = {} THEN << >>
  ELSE LET m == CHOOSE x \in S : \A y \in S : KillBefore(x, y)
       IN <<m>> \o ZRangeKills(S \ {m})

RECURSIVE ZRangeDeaths(_)
ZRangeDeaths(S) ==
  IF S = {} THEN << >>
  ELSE LET m == CHOOSE x \in S : \A y \in S : x <= y
       IN <<m>> \o ZRangeDeaths(S \ {m})

(***************************************************************************)
(* Processors (processors.py).  ev is the validated GameEvent.             *)
(***************************************************************************)
TeamsIndex(teams) ==
  [i \in 1..Len(teams) |->
     [team_id |-> teams[i].team_id,
      players |-> [j \in 1..Len(teams[i].players) |-> teams[i].players[j].player_id]]]

RECURSIVE StoreTeams(_, _, _, _)
StoreTeams(s, teams, i, match_id) ==
  IF i > Len(teams) THEN s
  ELSE StoreTeams(
         [s EXCEPT !.team = HSetFam(@, <<match_id, teams[i].team_id>>,
                                    [dragon_kills |-> 0, tower_kills |-> 0])],
         teams, i + 1, match_id)

TeamMembers(players, player_id) ==
  LET ids == [j \in 1..Len(players) |-> players[j].player_id]
  IN SelectSeq(ids, LAMBDA p : p # player_id)

\* A player loop that also writes empty derived fields at MATCH_START.
RECURSIVE StorePlayersWithDerived(_, _, _, _)
StorePlayersWithDerived(s, tm, j, match_id) ==
  IF j > Len(tm.players) THEN s
  ELSE LET pl == tm.players[j]
           r == register_player(s, pl.player_id, match_id, tm.team_id)
           player_key == get_player_state_key(r, pl.player_id)
           player_metadata ==
             [player_id |-> pl.player_id,
              gold |-> pl.gold,
              alive |-> IF pl.alive THEN 1 ELSE 0,
              name |-> pl.name,
              minion_kills |-> 0,
              human_kills |-> 0,
              human_kills_assists |-> 0,
              team_members |-> TeamMembers(tm.players, pl.player_id),
              kill_streaks |-> << >>,
              max_killing_spree |-> 0]
       IN StorePlayersWithDerived([r EXCEPT !.player = HSetFam(@, player_key, player_metadata)],
                                  tm, j + 1, match_id)

RECURSIVE StorePlayers(_, _, _, _)
StorePlayers(s, tm, j, match_id) ==
  IF j > Len(tm.players) THEN s
  ELSE LET pl == tm.players[j]
           r == register_player(s, pl.player_id, match_id, tm.team_id)
           player_key == get_player_state_key(r, pl.player_id)
           player_metadata ==
             [player_id |-> pl.player_id,
              gold |-> pl.gold,
              alive |-> IF pl.alive THEN 1 ELSE 0,
              name |-> pl.name,
              minion_kills |-> 0,
              human_kills |-> 0,
              human_kills_assists |-> 0,
              team_members |-> TeamMembers(tm.players, pl.player_id)]
       IN StorePlayers([r EXCEPT !.player = HSetFam(@, player_key, player_metadata)],
                       tm, j + 1, match_id)

RECURSIVE StoreTeamPlayers(_, _, _, _)
StoreTeamPlayers(s, teams, i, match_id) ==
  IF i > Len(teams) THEN s
  ELSE StoreTeamPlayers(StorePlayers(s, teams[i], 1, match_id), teams, i + 1, match_id)

MatchStartProcessor(s, ev) ==
  LET payload == ev.payload
      match_id == ev.match_id
      match_metadata ==
        [match_id |-> match_id,
         start_time |-> payload.fixture.start_time,
         title |-> payload.fixture.title,
         series_current |-> payload.fixture.series_current,
         series_max |-> payload.fixture.series_max,
         series_type |-> payload.fixture.series_type,
         teams |-> TeamsIndex(payload.teams),
         first_blood |-> FirstBloodSentinel]
  IN IF match_id = None THEN Raise(s)   \* hset refuses a None value
     ELSE LET s1 == [s EXCEPT !.game = HSetFam(@, get_game_state_key(match_id), match_metadata)]
              s2 == StoreTeams(s1, payload.teams, 1, match_id)
          IN StoreTeamPlayers(s2, payload.teams, 1, match_id)

MinionKillProcessor(s, ev) ==
  LET payload == ev.payload
  IN IF ~Has(payload.gold_granted) THEN s
     ELSE IF PlayerKeyFails(s, payload.player_id) THEN Raise(s)
     ELSE LET player_key == get_player_state_key(s, payload.player_id)
              s1 == IncrPlayer(s, player_key, "gold", payload.gold_granted)
              s2 == IncrPlayer(s1, player_key, "minion_kills", Some(1))
          IN IF ~Has(ev.timestamp) THEN Raise(s2)   \* fromisoformat(None)
             ELSE add_kill_history(s2, get_player_kill_history_key(s2, payload.player_id),
                                   Get(ev.timestamp), "minion")

\* Lines 134-147: the killer's gold, human_kills and kill history.
KillerUpdate(s, ev) ==
  LET payload == ev.payload
      killer_id == payload.killer_id
  IN IF killer_id = None THEN s
     ELSE IF PlayerKeyFails(s, killer_id) THEN Raise(s)
     ELSE LET killer_state_key == get_player_state_key(s, killer_id)
              s1 == IF Has(payload.gold_granted)
                    THEN IncrPlayer(s, killer_state_key, "gold", payload.gold_granted)
                    ELSE s
              s2 == IncrPlayer(s1, killer_state_key, "human_kills", Some(1))
          IN IF Has(ev.timestamp)
             THEN add_kill_history(s2, get_player_kill_history_key(s2, killer_id),
                                   Get(ev.timestamp), "human")
             ELSE s2

\* Lines 150-154: the loop over the assistants.
RECURSIVE AssistantsUpdate(_, _, _, _)
AssistantsUpdate(s, assistants, i, assist_gold) ==
  IF i > Len(assistants) THEN s
  ELSE IF PlayerKeyFails(s, assistants[i]) THEN Raise(s)
  ELSE LET assistant_state_key == get_player_state_key(s, assistants[i])
           s1 == IncrPlayer(s, assistant_state_key, "gold", assist_gold)
       IN IF s1.raised THEN s1
          ELSE AssistantsUpdate(
                 IncrPlayer(s1, assistant_state_key, "human_kills_assists", Some(1)),
                 assistants, i + 1, assist_gold)

\* A victim update that also clears the victim's alive flag.
VictimUpdateMarkingDead(s, ev) ==
  LET payload == ev.payload
  IN IF payload.victim_id # None /\ Has(ev.timestamp)
     THEN IF PlayerKeyFails(s, payload.victim_id) THEN Raise(s)
          ELSE [s EXCEPT !.death = ZAddFam(@, get_player_death_history_key(s, payload.victim_id),
                                           Get(ev.timestamp)),
                         !.player = HSetFam(@, get_player_state_key(s, payload.victim_id),
                                            [alive |-> 0])]
     ELSE s

\* Lines 157-160: the victim's death history.
VictimUpdate(s, ev) ==
  LET payload == ev.payload
  IN IF payload.victim_id # None /\ Has(ev.timestamp)
     THEN IF PlayerKeyFails(s, payload.victim_id) THEN Raise(s)
          ELSE [s EXCEPT !.death = ZAddFam(@, get_player_death_history_key(s, payload.victim_id),
                                           Get(ev.timestamp))]
     ELSE s

\* A write of first_blood that takes the timestamp of every kill it sees.
FirstBloodWriteLatest(s, match_state_key, first_blood, timestamp) ==
  [s EXCEPT !.game = HSetFam(@, match_state_key, [first_blood |-> timestamp])]

\* Lines 170-175: the write of first_blood, given the value read.
FirstBloodWrite(s, match_state_key, first_blood, timestamp) ==
  IF first_blood = FirstBloodSentinel
  THEN [s EXCEPT !.game = HSetFam(@, match_state_key, [first_blood |-> timestamp])]
  ELSE IF timestamp < first_blood
  THEN [s EXCEPT !.game = HSetFam(@, match_state_key, [first_blood |-> timestamp])]
  ELSE s

\* Lines 163-175: the first-blood update.
FirstBloodUpdate(s, ev) ==
  LET payload == ev.payload
  IN IF ~Has(ev.timestamp) THEN s
     ELSE IF payload.killer_id = None /\ payload.victim_id = None THEN s
     ELSE LET who == IF payload.killer_id # None THEN payload.killer_id ELSE payload.victim_id
              match_id == get_match_id_for_player(s, who)
              match_state_key == get_game_state_key(match_id)
              h == HGetAll(s.game, match_state_key)
          IN IF "first_blood" \notin DOMAIN h THEN Raise(s)   \* float(None)
             ELSE FirstBloodWrite(s, match_state_key, h.first_blood, Get(ev.timestamp))

PlayerKillProcessor(s, ev) ==
  LET s1 == KillerUpdate(s, ev)
      s2 == IF s1.raised \/ ~Has(ev.payload.assistants) THEN s1
            ELSE AssistantsUpdate(s1, Get(ev.payload.assistants), 1, ev.payload.assist_gold)
      s3 == IF s2.raised THEN s2 ELSE VictimUpdate(s2, ev)
  IN IF s3.raised THEN s3 ELSE FirstBloodUpdate(s3, ev)

DragonKillProcessor(s, ev) ==
  LET payload == ev.payload
      killer_id == payload.killer_id
  IN IF ~Has(payload.gold_granted) \/ killer_id = None THEN s
     ELSE IF PlayerKeyFails(s, killer_id) THEN Raise(s)
     ELSE LET s1 == IncrPlayer(s, get_player_state_key(s, killer_id), "gold", payload.gold_granted)
              s2 == IF Has(ev.timestamp)
                    THEN add_kill_history(s1, get_player_kill_history_key(s1, killer_id),
                                          Get(ev.timestamp), "dragon")
                    ELSE s1
              team_id == get_team_id(s2, killer_id)
          IN IF TeamKeyFails(s2, team_id) THEN Raise(s2)
             ELSE IncrTeam(s2, get_team_state_key(s2, team_id), "dragon_kills", 1)

\* Lines 227-239: the loop over the registered players of the killer's team.
\* A loop that gives teamGoldGranted to every player of the team, the killer
\* included.
RECURSIVE TeamGoldUpdateKillerAsMember(_, _, _)
TeamGoldUpdateKillerAsMember(s, player_ids, payload) ==
  IF player_ids = {} THEN s
  ELSE LET player_id == CHOOSE p \in player_ids : TRUE
           gold_granted == payload.team_gold_granted
           s1 == IF Has(gold_granted)
                 THEN IncrPlayer(s, get_player_state_key(s, player_id), "gold", gold_granted)
                 ELSE s
       IN TeamGoldUpdateKillerAsMember(s1, player_ids \ {player_id}, payload)

RECURSIVE TeamGoldUpdate(_, _, _)
TeamGoldUpdate(s, player_ids, payload) ==
  IF player_ids = {} THEN s
  ELSE LET player_id == CHOOSE p \in player_ids : TRUE
           gold_granted == IF player_id = payload.killer_id
                           THEN payload.player_gold_granted
                           ELSE payload.team_gold_granted
           s1 == IF Has(gold_granted)
                 THEN IncrPlayer(s, get_player_state_key(s, player_id), "gold", gold_granted)
                 ELSE s
       IN TeamGoldUpdate(s1, player_ids \ {player_id}, payload)

TurretDestroyProcessor(s, ev) ==
  LET payload == ev.payload
  IN IF payload.killer_id = None THEN s
     ELSE IF TeamKeyFails(s, payload.killer_team_id) THEN Raise(s)
     ELSE LET s1 == IncrTeam(s, get_team_state_key(s, payload.killer_team_id), "tower_kills", 1)
          IN TeamGoldUpdate(s1, players_for_team(s1, payload.killer_team_id), payload)

\* Kill streaks computed from the human kills of the history only.
KillStreaksOfHumanKills(s, player_id) ==
  LET kills == SelectSeq(ZRangeKills(ZMembers(s.kill, get_player_kill_history_key(s, player_id))),
                         IsHuman)
      kill_timestamps == [i \in 1..Len(kills) |-> kills[i].timestamp]
  IN calculate_kill_streaks(kill_timestamps, kill_streak_time_window)

\* MatchEndProcessor.calculate_kill_streaks: one player's kill_streaks.
KillStreaksOf(s, player_id) ==
  LET kills == ZRangeKills(ZMembers(s.kill, get_player_kill_history_key(s, player_id)))
      kill_timestamps == [i \in 1..Len(kills) |-> kills[i].timestamp]
  IN calculate_kill_streaks(kill_timestamps, kill_streak_time_window)

\* MatchEndProcessor.calculate_max_killing_sprees: one player's max_killing_spree.
MaxKillingSpreeOf(s, player_id) ==
  calculate_max_killing_spree(
    ZRangeKills(ZMembers(s.kill, get_player_kill_history_key(s, player_id))),
    ZRangeDeaths(ZMembers(s.death, get_player_death_history_key(s, player_id))))

RECURSIVE WriteKillStreaks(_, _)
WriteKillStreaks(s, player_ids) ==
  IF player_ids = {} THEN s
  ELSE LET p == CHOOSE x \in player_ids : TRUE
       IN WriteKillStreaks(
            [s EXCEPT !.player = HSetFam(@, get_player_state_key(s, p),
                                         [kill_streaks |-> KillStreaksOf(s, p)])],
            player_ids \ {p})

RECURSIVE WriteMaxKillingSprees(_, _)
WriteMaxKillingSprees(s, player_ids) ==
  IF player_ids = {} THEN s
  ELSE LET p == CHOOSE x \in player_ids : TRUE
       IN WriteMaxKillingSprees(
            [s EXCEPT !.player = HSetFam(@, get_player_state_key(s, p),
                                         [max_killing_spree |-> MaxKillingSpreeOf(s, p)])],
            player_ids \ {p})

\* A MATCH_END that also counts, in the match record, how often it ran.
MatchEndProcessorCounting(s, ev) ==
  LET match_id == ev.match_id
      s0 == [s EXCEPT !.game = HIncrByFam(@, get_game_state_key(match_id), "ended", 1)]
      s1 == [s0 EXCEPT !.game = HSetFam(@, get_game_state_key(match_id),
                                        [winning_team_id |-> ev.payload.winning_team_id])]
      s2 == WriteKillStreaks(s1, players_for_match(s1, match_id))
  IN WriteMaxKillingSprees(s2, players_for_match(s2, match_id))

MatchEndProcessor(s, ev) ==
  LET match_id == ev.match_id
      s1 == [s EXCEPT !.game = HSetFam(@, get_game_state_key(match_id),
                                       [winning_team_id |-> ev.payload.winning_team_id])]
      s2 == WriteKillStreaks(s1, players_for_match(s1, match_id))
  IN WriteMaxKillingSprees(s2, players_for_match(s2, match_id))

(***************************************************************************)
(* The read path (services.GameState.from_database): the derived fields of *)
(* one player's state, from the player hash.                               *)
(***************************************************************************)
PlayerState(player_state_data) ==
  [kill_streaks |-> player_state_data.kill_streaks,
   max_killing_spree |-> max_killing_spree_label(player_state_data.max_killing_spree)]

(***************************************************************************)
(* Event models (game_event/models.py): the JSON payload, with the alias   *)
(* names of the wire format, is validated into the payload model.          *)
(***************************************************************************)
EVENT_TYPES ==
  {"MATCH_START", "MINION_KILL", "PLAYER_KILL", "DRAGON_KILL", "TURRET_DESTROY", "MATCH_END"}

\* GameEvent.validate_type, and the default of a missing "type".
validate_type(value) == IF value \in EVENT_TYPES THEN value ELSE "UNKNOWN"

\* The validation with MatchEndPayload.winning_team_id declared optional.
PayloadInvalidWinnerOptional(type_, data) ==
  CASE type_ = "MATCH_START" -> ~Has(data.fixture) \/ ~Has(data.teams)
    [] type_ = "MINION_KILL" -> data.playerID = None
    [] type_ = "DRAGON_KILL" -> data.killerID = None
    [] OTHER -> FALSE

\* A required field of the payload is missing: pydantic's ValidationError.
PayloadInvalid(type_, data) ==
  CASE type_ = "MATCH_START" -> ~Has(data.fixture) \/ ~Has(data.teams)
    [] type_ = "MINION_KILL" -> data.playerID = None
    [] type_ = "DRAGON_KILL" -> data.killerID = None
    [] type_ = "MATCH_END" -> data.winningTeamID = None
    [] OTHER -> FALSE

\* GameEvent.resolve_payload: the payload model of the event's type.
resolve_payload(type_, data) ==
  CASE type_ = "MATCH_START" ->
         [fixture |-> Get(data.fixture), teams |-> Get(data.teams)]
    [] type_ = "MINION_KILL" ->
         [player_id |-> data.playerID, gold_granted |-> data.goldGranted]
    [] type_ = "PLAYER_KILL" ->
         [killer_id |-> data.killerID, victim_id |-> data.victimID,
          gold_granted |-> data.goldGranted, assistants |-> data.assistants,
          assist_gold |-> data.assistGold]
    [] type_ = "DRAGON_KILL" ->
         [killer_id |-> data.killerID, dragon_type |-> data.dragonType,
          gold_granted |-> data.goldGranted]
    [] type_ = "TURRET_DESTROY" ->
         [killer_id |-> data.killerID, killer_team_id |-> data.killerTeamID,
          turret_tier |-> data.turretTier, turret_lane |-> data.turretLane,
          player_gold_granted |-> data.playerGoldGranted,
          team_gold_granted |-> data.teamGoldGranted]
    [] type_ = "MATCH_END" ->
         [winning_team_id |-> data.winningTeamID]
    [] OTHER -> None

\* GameEvent(**event_data), for event_data that validates.
GameEvent(event_data) ==
  LET type_ == validate_type(IF "type" \in DOMAIN event_data THEN event_data.type ELSE None)
  IN [type_ |-> type_,
      match_id |-> IF "matchID" \in DOMAIN event_data THEN event_data.matchID ELSE None,
      timestamp |-> IF "timestamp" \in DOMAIN event_data
                    THEN Some(event_data.timestamp) ELSE Absent,
      payload |-> resolve_payload(type_, event_data.payload)]

GameEventInvalid(event_data) ==
  PayloadInvalid(validate_type(IF "type" \in DOMAIN event_data THEN event_data.type ELSE None),
                 event_data.payload)

(***************************************************************************)
(* json.dumps / json.loads of the payload: the raw event hash holds the    *)
(* payload as JSON text.                                                   *)
(***************************************************************************)
JsonDumps(value) == [json_text |-> value]
JsonLoads(text) == text.json_text

(***************************************************************************)
(* services.process_game_event, on the hash read for the event id.         *)
(***************************************************************************)
\* The match statement of process_game_event.
Dispatch(s, event) ==
  CASE event.type_ = "MATCH_START" -> MatchStartProcessor(s, event)
    [] event.type_ = "MINION_KILL" -> MinionKillProcessor(s, event)
    [] event.type_ = "PLAYER_KILL" -> PlayerKillProcessor(s, event)
    [] event.type_ = "DRAGON_KILL" -> DragonKillProcessor(s, event)
    [] event.type_ = "TURRET_DESTROY" -> TurretDestroyProcessor(s, event)
    [] event.type_ = "MATCH_END" -> MatchEndProcessor(s, event)
    [] OTHER -> s

process_game_event(s, stored) ==
  IF stored = EmptyMap THEN s
  ELSE IF "payload" \notin DOMAIN stored THEN s
  ELSE LET event_data == Merge([payload |-> JsonLoads(stored.payload)], stored)
       IN IF GameEventInvalid(event_data) THEN s
          ELSE Dispatch(s, GameEvent(event_data))

(***************************************************************************)
(* game_event/consumer.py: what ingress writes for a JSON body.            *)
(***************************************************************************)
\* json.loads(body): the top-level keys the body holds.
JsonObject(body) ==
  Merge(IF body.type # None THEN [type |-> body.type] ELSE EmptyMap,
  Merge(IF body.matchID # None THEN [matchID |-> body.matchID] ELSE EmptyMap,
  Merge(IF Has(body.timestamp) THEN [timestamp |-> Get(body.timestamp)] ELSE EmptyMap,
        IF Has(body.payload) THEN [payload |-> Get(body.payload)] ELSE EmptyMap)))

\* A JSON null among the values of a mapping (in the model, under "type" or
\* "matchID"): redis-py refuses to encode None (DataError) before anything is
\* sent.
Null == "null"
HSetRejects(mapping) ==
  \E k \in DOMAIN mapping \cap {"type", "matchID"} : mapping[k] = Null

\* data["payload"] = json.dumps(data["payload"]); the mapping given to hset.
RawEventHash(body) ==
  LET data == JsonObject(body)
  IN Merge([payload |-> JsonDumps(data.payload)], data)

(***************************************************************************)
(* The messages of the model.                                              *)
(***************************************************************************)
Body(type, matchID, timestamp, payload) ==
  [utf8 |-> TRUE, json |-> TRUE, type |-> type, matchID |-> matchID,
   timestamp |-> timestamp, payload |-> Some(payload)]

\* A body of text that is not JSON, a body of bytes that are not UTF-8 (so
\* not JSON either), and a JSON object without a "payload" key.
Garbage ==
  [utf8 |-> TRUE, json |-> FALSE, type |-> None, matchID |-> None, timestamp |-> Absent,
   payload |-> Absent]
NotUtf8 ==
  [utf8 |-> FALSE, json |-> FALSE, type |-> None, matchID |-> None, timestamp |-> Absent,
   payload |-> Absent]
NoPayload ==
  [utf8 |-> TRUE, json |-> TRUE, type |-> "MINION_KILL", matchID |-> "m1",
   timestamp |-> Absent, payload |-> Absent]

Fixture1 ==
  [start_time |-> "2024-01-01T12:00:00", title |-> "final", series_current |-> 1,
   series_max |-> 3, series_type |-> "bo3"]

Roster1 ==
  << [team_id |-> "t1",
      players |-> << [player_id |-> "p1", gold |-> 5, alive |-> TRUE, name |-> "one"],
                     [player_id |-> "p2", gold |-> 0, alive |-> TRUE, name |-> "two"] >>],
     [team_id |-> "t2",
      players |-> << [player_id |-> "p3", gold |-> 0, alive |-> FALSE, name |-> "three"] >>] >>

MatchStartBody(m, roster) ==
  Body("MATCH_START", m, Absent, [fixture |-> Some(Fixture1), teams |-> Some(roster)])

MatchEndBody(m, winner) == Body("MATCH_END", m, Absent, [winningTeamID |-> winner])

MinionKillBody(p, gold, ts) ==
  Body("MINION_KILL", "m1", ts, [playerID |-> p, goldGranted |-> gold])

PlayerKillBody(killer, victim, gold, assistants, assist_gold, ts) ==
  Body("PLAYER_KILL", "m1", ts,
       [killerID |-> killer, victimID |-> victim, goldGranted |-> gold,
        assistants |-> assistants, assistGold |-> assist_gold])

DragonKillBody(killer, gold, ts) ==
  Body("DRAGON_KILL", "m1", ts,
       [killerID |-> killer, dragonType |-> "fire", goldGranted |-> gold])

TurretDestroyBody(killer, killer_team, player_gold, team_gold, ts) ==
  Body("TURRET_DESTROY", "m1", ts,
       [killerID |-> killer, killerTeamID |-> killer_team, turretTier |-> Some(1),
        turretLane |-> "mid", playerGoldGranted |-> player_gold,
        teamGoldGranted |-> team_gold])

StartM1 == MatchStartBody("m1", Roster1)
EndM1 == MatchEndBody("m1", "t1")
MinionP1 == MinionKillBody("p1", Some(2), Some(12))
\* p9 is in no roster.
MinionP9 == MinionKillBody("p9", Some(2), Some(1))
KillP1 == PlayerKillBody("p1", "p3", Some(3), Some(<<"p2">>), Some(1), Some(2))
KillP3 == PlayerKillBody("p3", "p1", Some(3), Absent, Absent, Some(1))
KillNobody == PlayerKillBody(None, None, Some(3), Absent, Absent, Some(0))
KillNoAssistGold == PlayerKillBody("p1", None, Absent, Some(<<"p2">>), Absent, Some(3))
DragonP1 == DragonKillBody("p1", Some(4), Some(3))
TurretT1 == TurretDestroyBody("p1", "t1", Some(5), Some(1), Some(4))
UnknownType == Body("PAUSE", "m1", Some(1), [reason |-> "break"])
\* A JSON object without a "type" key.
NoType == Body(None, "m1", Some(1), [reason |-> "break"])
\* A JSON object with "type": null.
NullType == Body(Null, "m1", Some(1), [reason |-> "break"])

\* Payloads without a field their model requires.
MinionNoPlayer == MinionKillBody(None, Some(2), Some(5))
DragonNoKiller == DragonKillBody(None, Some(4), Some(6))
EndNoWinner == MatchEndBody("m1", None)
StartNoFixture ==
  Body("MATCH_START", "m1", Absent, [fixture |-> Absent, teams |-> Some(Roster1)])
StartNoTeams ==
  Body("MATCH_START", "m1", Absent, [fixture |-> Some(Fixture1), teams |-> Absent])

\* Events of registered players without an optional field or the timestamp.
MinionNoTimestamp == MinionKillBody("p1", Some(2), Absent)
MinionNoGold == MinionKillBody("p1", Absent, Some(3))
KillNoGold == PlayerKillBody("p1", "p3", Absent, Absent, Absent, Some(2))
DragonNoTimestamp == DragonKillBody("p1", Some(4), Absent)
TurretNoTeam == TurretDestroyBody("p1", None, Some(5), Some(1), Some(4))

\* PLAYER_KILL events with assistants: without a killer and a victim, and
\* without a gold grant for the killer.
KillNobodyAssisted == PlayerKillBody(None, None, Some(3), Some(<<"p2">>), Some(1), Some(5))
KillP2Assisted == PlayerKillBody("p2", "p3", Absent, Some(<<"p1">>), Some(1), Some(4))

\* The bodies published in a run of the pipeline.
PipeBodies == {Garbage, NoPayload, StartM1, MinionP1, MinionP9, KillP1, EndM1, UnknownType}

\* The bodies published in a run of the pipeline that looks at what ingress
\* and the state-update stage do with bodies they cannot use.
ErrBodies == {Garbage, NotUtf8, StartM1, MinionP1, UnknownType, NoType, NullType}

\* The bodies fed through in a run of the processors.
ProcBodies ==
  {StartM1, EndM1, MinionP1, MinionP9, KillP1, KillP3, KillNobody, KillNoAssistGold,
   DragonP1, TurretT1, UnknownType}

\* The bodies fed through in a run that looks at payload validation.
ParseBodies ==
  {StartM1, MinionP1, MinionNoPlayer, DragonNoKiller, EndNoWinner, StartNoFixture,
   StartNoTeams}

\* The bodies fed through in a run that looks at missing optional fields.
OptBodies ==
  {StartM1, MinionP1, MinionNoTimestamp, MinionNoGold, KillNoGold, KillNoAssistGold,
   DragonNoTimestamp, TurretNoTeam}

\* The bodies published in a run in which the store or the broker may fail
\* under the ingress consumer: well-formed events only.
FaultBodies == {StartM1, MinionP1, KillP1, EndM1}

\* The bodies published in a run that looks at what the broker has delivered.
DeliveryBodies == {StartM1, MinionP1, EndM1}

\* A PLAYER_KILL with killer, victim, an assistant and a timestamp, without
\* assistGold.
KillAssistedNoAssistGold ==
  PlayerKillBody("p1", "p3", Some(3), Some(<<"p2">>), Absent, Some(2))

\* TURRET_DESTROY events for team t1 and t2: without gold fields, without a
\* killer, by a killer of the other team, with team gold only, with player
\* gold only.
TurretNoGold == TurretDestroyBody("p1", "t1", Absent, Absent, Some(5))
TurretNoKiller == TurretDestroyBody(None, "t1", Some(5), Some(1), Some(6))
TurretOutsider == TurretDestroyBody("p3", "t1", Some(5), Some(1), Some(7))
TurretTeamGoldOnly == TurretDestroyBody("p2", "t1", Absent, Some(2), Some(8))
TurretT2 == TurretDestroyBody("p3", "t2", Some(4), Absent, Some(9))

\* The bodies fed through in a run that looks at TURRET_DESTROY.
TurretBodies ==
  {StartM1, TurretT1, TurretNoGold, TurretNoKiller, TurretOutsider, TurretTeamGoldOnly,
   TurretT2}

\* A second match: m2 with the player and team ids of m1, m2 with ids of its
\* own, and a minion kill of match m2 by a player of that roster.
RosterOther ==
  << [team_id |-> "t4",
      players |-> << [player_id |-> "p4", gold |-> 1, alive |-> TRUE, name |-> "four"] >>] >>

StartM2 == MatchStartBody("m2", Roster1)
StartM2Other == MatchStartBody("m2", RosterOther)
MinionP4M2 == Body("MINION_KILL", "m2", Some(6), [playerID |-> "p4", goldGranted |-> Some(2)])

\* The bodies fed through in a run with two matches.
TwoMatchBodies == {StartM1, StartM2, StartM2Other, MinionP1, MinionP4M2, KillP1, TurretT1, EndM1}

\* The bodies fed through in a run that looks at PLAYER_KILL.
\* A roster with a team that has no players, and its MATCH_START.
RosterEmptyTeam ==
  Roster1 \o << [team_id |-> "t3", players |-> << >>] >>

StartEmptyTeam == MatchStartBody("m1", RosterEmptyTeam)

\* MATCH_START with either roster, before and after other events of the match.
StartBodies == {StartM1, StartEmptyTeam, EndM1, MinionP1, KillP1, DragonP1}

KillBodies ==
  {StartM1, KillP1, KillP3, KillNoGold, KillP2Assisted, KillNobody, KillNobodyAssisted,
   KillAssistedNoAssistGold}

(***************************************************************************)
(* The program state as the record the processors work on, and back.       *)
(***************************************************************************)
NoStore ==
  [game |-> EmptyMap, team |-> EmptyMap, player |-> EmptyMap, kill |-> EmptyMap,
   death |-> EmptyMap, matches |-> EmptyMap, teams |-> EmptyMap, raised |-> FALSE]

Store ==
  [game |-> game, team |-> team, player |-> player, kill |-> kill_history,
   death |-> death_history, matches |-> reg_matches, teams |-> reg_teams, raised |-> FALSE]

SetStore(r) ==
  /\ game' = r.game
  /\ team' = r.team
  /\ player' = r.player
  /\ kill_history' = r.kill
  /\ death_history' = r.death
  /\ reg_matches' = r.matches
  /\ reg_teams' = r.teams

storeVars == <<game, team, player, kill_history, death_history, reg_matches, reg_teams>>

Init ==
  /\ events_queue = << >>
  /\ updates_queue = << >>
  /\ raw_events = EmptyMap
  /\ next_uuid = 0
  /\ running = TRUE
  /\ game = EmptyMap
  /\ team = EmptyMap
  /\ player = EmptyMap
  /\ kill_history = EmptyMap
  /\ death_history = EmptyMap
  /\ reg_matches = EmptyMap
  /\ reg_teams = EmptyMap
  /\ published = << >>
  /\ ingested = << >>
  /\ processed = << >>
  /\ delivered_events = 0
  /\ delivered_updates = 0
  /\ fn_input = Absent
  /\ fn_output = Absent
  /\ end_task = Absent
  /\ reader = Absent

(***************************************************************************)
(* The pipeline.                                                           *)
(***************************************************************************)
deliveryVars == <<delivered_events, delivered_updates>>
fnVars == <<fn_input, fn_output>>
readVars == <<end_task, reader>>

\* An acknowledgement (or a reject) takes a message off the delivered ones; a
\* message handled before the model showed its delivery was not counted.
Acked(n) == IF n > 0 THEN n - 1 ELSE 0

\* A publisher puts a body on game_events (tests/utils.py, run_scenario.py).
Publish(b) ==
  /\ Len(published) < MaxEvents
  /\ events_queue' = Append(events_queue, b)
  /\ published' = Append(published, b)
  /\ UNCHANGED <<updates_queue, raw_events, next_uuid, running, storeVars, ingested, processed,
                 deliveryVars, fnVars, readVars>>

\* game_event/consumer.py, one message: the body is not JSON.
IngressDrop ==
  /\ running
  /\ events_queue # << >>
  /\ Head(events_queue).utf8
  /\ ~Head(events_queue).json
  /\ events_queue' = Tail(events_queue)
  /\ ingested' = Append(ingested, [body |-> Head(events_queue), event_id |-> Absent])
  /\ delivered_events' = Acked(delivered_events)
  /\ UNCHANGED <<updates_queue, raw_events, next_uuid, running, storeVars, published, processed,
                 delivered_updates, fnVars, readVars>>

\* game_event/consumer.py, one message: message.body.decode() raises
\* UnicodeDecodeError (line 26, outside the try), or data["payload"] raises
\* KeyError, or redis.hset raises DataError on a null value; the message is
\* rejected without requeue and the exception ends the task, and with it
\* asyncio.gather and the process (main.py).
IngressRaises(body) ==
  \/ ~body.utf8
  \/ body.json /\ ~Has(body.payload)
  \/ body.json /\ Has(body.payload) /\ HSetRejects(RawEventHash(body))

IngressFail ==
  /\ running
  /\ events_queue # << >>
  /\ IngressRaises(Head(events_queue))
  /\ events_queue' = Tail(events_queue)
  /\ running' = FALSE
  /\ ingested' = Append(ingested, [body |-> Head(events_queue), event_id |-> Absent])
  /\ delivered_events' = 0
  /\ delivered_updates' = 0
  /\ UNCHANGED <<updates_queue, raw_events, next_uuid, storeVars, published, processed, fnVars, readVars>>

\* A publish that puts the id at the head of game_state_updates.
IngressForwardAtHead ==
  /\ running
  /\ events_queue # << >>
  /\ Head(events_queue).json
  /\ Has(Head(events_queue).payload)
  /\ ~HSetRejects(RawEventHash(Head(events_queue)))
  /\ LET event_id == next_uuid + 1
     IN /\ next_uuid' = event_id
        /\ raw_events' = HSetFam(raw_events, event_id, RawEventHash(Head(events_queue)))
        /\ updates_queue' = <<event_id>> \o updates_queue
        /\ ingested' = Append(ingested, [body |-> Head(events_queue), event_id |-> Some(event_id)])
  /\ events_queue' = Tail(events_queue)
  /\ delivered_events' = Acked(delivered_events)
  /\ UNCHANGED <<running, storeVars, published, processed, delivered_updates, fnVars, readVars>>

\* An ingress that derives the event id from the message: a delivery of a
\* body forwarded before gets the id of that earlier delivery.
IngressForwardContentId ==
  /\ running
  /\ events_queue # << >>
  /\ Head(events_queue).json
  /\ Has(Head(events_queue).payload)
  /\ ~HSetRejects(RawEventHash(Head(events_queue)))
  /\ LET same == {i \in 1..Len(ingested) :
                    ingested[i].body = Head(events_queue) /\ Has(ingested[i].event_id)}
         event_id == IF same = {} THEN next_uuid + 1
                     ELSE Get(ingested[CHOOSE i \in same : TRUE].event_id)
     IN /\ next_uuid' = Max2(next_uuid, event_id)
        /\ raw_events' = HSetFam(raw_events, event_id, RawEventHash(Head(events_queue)))
        /\ updates_queue' = Append(updates_queue, event_id)
        /\ ingested' = Append(ingested, [body |-> Head(events_queue), event_id |-> Some(event_id)])
  /\ events_queue' = Tail(events_queue)
  /\ delivered_events' = Acked(delivered_events)
  /\ UNCHANGED <<running, storeVars, published, processed, delivered_updates, fnVars, readVars>>

\* An ingress that publishes the id and does not write the raw event hash.
IngressForwardWithoutHash ==
  /\ running
  /\ events_queue # << >>
  /\ Head(events_queue).json
  /\ Has(Head(events_queue).payload)
  /\ ~HSetRejects(RawEventHash(Head(events_queue)))
  /\ LET event_id == next_uuid + 1
     IN /\ next_uuid' = event_id
        /\ raw_events' = raw_events
        /\ updates_queue' = Append(updates_queue, event_id)
        /\ ingested' = Append(ingested, [body |-> Head(events_queue), event_id |-> Some(event_id)])
  /\ events_queue' = Tail(events_queue)
  /\ delivered_events' = Acked(delivered_events)
  /\ UNCHANGED <<running, storeVars, published, processed, delivered_updates, fnVars, readVars>>

\* game_event/consumer.py, one message: store the raw event, publish its id.
IngressForward ==
  /\ running
  /\ events_queue # << >>
  /\ Head(events_queue).json
  /\ Has(Head(events_queue).payload)
  /\ ~HSetRejects(RawEventHash(Head(events_queue)))
  /\ LET event_id == next_uuid + 1
     IN /\ next_uuid' = event_id
        /\ raw_events' = HSetFam(raw_events, event_id, RawEventHash(Head(events_queue)))
        /\ updates_queue' = Append(updates_queue, event_id)
        /\ ingested' = Append(ingested, [body |-> Head(events_queue), event_id |-> Some(event_id)])
  /\ events_queue' = Tail(events_queue)
  /\ delivered_events' = Acked(delivered_events)
  /\ UNCHANGED <<running, storeVars, published, processed, delivered_updates, fnVars, readVars>>

\* game_state/consumer.py, one message: process_game_event(event_id); an
\* exception rejects the message without requeue and ends the task and the
\* process.
StateConsume ==
  /\ running
  /\ updates_queue # << >>
  /\ LET event_id == Head(updates_queue)
         r == process_game_event(Store, HGetAll(raw_events, event_id))
     IN /\ SetStore(r)
        /\ running' = ~r.raised
        /\ processed' = Append(processed, [event_id |-> event_id, raised |-> r.raised])
        /\ delivered_updates' = IF r.raised THEN 0 ELSE Acked(delivered_updates)
        /\ delivered_events' = IF r.raised THEN 0 ELSE delivered_events
  /\ updates_queue' = Tail(updates_queue)
  /\ UNCHANGED <<events_queue, raw_events, next_uuid, published, ingested, fnVars, readVars>>

Next ==
  \/ \E b \in PipeBodies : Publish(b)
  \/ IngressDrop
  \/ IngressFail
  \/ IngressForward
  \/ StateConsume

Spec == Init /\ [][Next]_vars

\* The pipeline, fed with ErrBodies.
ErrNext ==
  \/ \E b \in ErrBodies : Publish(b)
  \/ IngressDrop
  \/ IngressFail
  \/ IngressForward
  \/ StateConsume

ErrSpec == Init /\ [][ErrNext]_vars

(***************************************************************************)
(* Failures of the store and of the broker under the ingress consumer.     *)
(* An exception inside "async with message.process()" (requeue=False by    *)
(* default) rejects the message without requeue before it propagates; it   *)
(* ends the task, asyncio.gather and the process.                          *)
(***************************************************************************)
\* game_event/consumer.py line 36: redis.hset raises (the store is
\* unreachable); nothing is stored, the message is rejected and discarded.
IngressStoreFail ==
  /\ running
  /\ events_queue # << >>
  /\ Head(events_queue).json
  /\ Has(Head(events_queue).payload)
  /\ ~HSetRejects(RawEventHash(Head(events_queue)))
  /\ next_uuid' = next_uuid + 1
  /\ events_queue' = Tail(events_queue)
  /\ running' = FALSE
  /\ ingested' = Append(ingested, [body |-> Head(events_queue), event_id |-> Absent])
  /\ delivered_events' = 0
  /\ delivered_updates' = 0
  /\ UNCHANGED <<updates_queue, raw_events, storeVars, published, processed, fnVars, readVars>>

\* game_event/consumer.py lines 37-40: the raw event is stored and the
\* publish raises.  If the broker connection is what failed, the reject
\* cannot be sent and the broker requeues the unacknowledged message; if not,
\* the message is rejected and discarded.
IngressPublishFail(requeued) ==
  /\ running
  /\ events_queue # << >>
  /\ Head(events_queue).json
  /\ Has(Head(events_queue).payload)
  /\ ~HSetRejects(RawEventHash(Head(events_queue)))
  /\ LET event_id == next_uuid + 1
     IN /\ next_uuid' = event_id
        /\ raw_events' = HSetFam(raw_events, event_id, RawEventHash(Head(events_queue)))
  /\ events_queue' = IF requeued THEN events_queue ELSE Tail(events_queue)
  /\ running' = FALSE
  /\ ingested' = Append(ingested, [body |-> Head(events_queue), event_id |-> Absent])
  /\ delivered_events' = 0
  /\ delivered_updates' = 0
  /\ UNCHANGED <<updates_queue, storeVars, published, processed, fnVars, readVars>>

FaultNext ==
  \/ \E b \in FaultBodies : Publish(b)
  \/ IngressForward
  \/ StateConsume
  \/ IngressStoreFail
  \/ \E requeued \in BOOLEAN : IngressPublishFail(requeued)

FaultSpec == Init /\ [][FaultNext]_vars

(***************************************************************************)
(* Delivery.  connectors/rabbitmq.py opens a channel and declares the      *)
(* queue without channel.set_qos, so the prefetch count is unlimited: the  *)
(* broker pushes every message of the queue to queue.iterator(), which     *)
(* buffers them, unacknowledged, until the loop body takes them.           *)
(***************************************************************************)
\* The broker delivers the next message of game_events to the iterator.
DeliverEvent ==
  /\ running
  /\ delivered_events < Len(events_queue)
  /\ delivered_events' = delivered_events + 1
  /\ UNCHANGED <<events_queue, updates_queue, raw_events, next_uuid, running, storeVars,
                 published, ingested, processed, delivered_updates, fnVars, readVars>>

\* The broker delivers the next message of game_state_updates to the iterator.
DeliverUpdate ==
  /\ running
  /\ delivered_updates < Len(updates_queue)
  /\ delivered_updates' = delivered_updates + 1
  /\ UNCHANGED <<events_queue, updates_queue, raw_events, next_uuid, running, storeVars,
                 published, ingested, processed, delivered_events, fnVars, readVars>>

DeliveryNext ==
  \/ \E b \in DeliveryBodies : Publish(b)
  \/ DeliverEvent
  \/ DeliverUpdate
  \/ IngressForward
  \/ StateConsume

DeliverySpec == Init /\ [][DeliveryNext]_vars

(***************************************************************************)
(* utils.calculate_kill_streaks on its own: the function applied to an     *)
(* ascending list of kill timestamps and a window, as                      *)
(* tests/test_kill_streaks.py calls it.                                    *)
(***************************************************************************)
StreakWindows == {2, kill_streak_time_window}
StartTimes == {0, 55}

\* Gaps between consecutive kills: none, the window exactly, just over it.
Gaps(streak_window) == {0, streak_window, streak_window + 1}

RECURSIVE AscendingLists(_, _)
AscendingLists(n, streak_window) ==
  IF n = 0 THEN {<< >>}
  ELSE IF n = 1 THEN {<<t>> : t \in StartTimes}
  ELSE {Append(L, L[Len(L)] + g) : L \in AscendingLists(n - 1, streak_window),
                                   g \in Gaps(streak_window)}

StreakInputs ==
  UNION {UNION {{[kill_timestamps |-> L, streak_window |-> W] : L \in AscendingLists(n, W)} :
                n \in 0..MaxKills} :
         W \in StreakWindows}

StreakInit ==
  /\ events_queue = << >>
  /\ updates_queue = << >>
  /\ raw_events = EmptyMap
  /\ next_uuid = 0
  /\ running = TRUE
  /\ game = EmptyMap
  /\ team = EmptyMap
  /\ player = EmptyMap
  /\ kill_history = EmptyMap
  /\ death_history = EmptyMap
  /\ reg_matches = EmptyMap
  /\ reg_teams = EmptyMap
  /\ published = << >>
  /\ ingested = << >>
  /\ processed = << >>
  /\ delivered_events = 0
  /\ delivered_updates = 0
  /\ fn_input \in {Some(x) : x \in StreakInputs}
  /\ fn_output = Absent
  /\ end_task = Absent
  /\ reader = Absent

\* The call calculate_kill_streaks(kill_timestamps, streak_window).
CallKillStreaks ==
  /\ fn_output = Absent
  /\ fn_output' = Some(calculate_kill_streaks(Get(fn_input).kill_timestamps,
                                              Get(fn_input).streak_window))
  /\ UNCHANGED <<events_queue, updates_queue, raw_events, next_uuid, running, storeVars,
                 published, ingested, processed, deliveryVars, fn_input, readVars>>

StreakNext == CallKillStreaks

StreakSpec == StreakInit /\ [][StreakNext]_vars

\* The pipeline before anything was published.
IdlePipeline ==
  /\ events_queue = << >>
  /\ updates_queue = << >>
  /\ raw_events = EmptyMap
  /\ next_uuid = 0
  /\ running = TRUE
  /\ game = EmptyMap
  /\ team = EmptyMap
  /\ player = EmptyMap
  /\ kill_history = EmptyMap
  /\ death_history = EmptyMap
  /\ reg_matches = EmptyMap
  /\ reg_teams = EmptyMap
  /\ published = << >>
  /\ ingested = << >>
  /\ processed = << >>
  /\ delivered_events = 0
  /\ delivered_updates = 0
  /\ end_task = Absent
  /\ reader = Absent

(***************************************************************************)
(* utils.calculate_max_killing_spree on its own: the function applied to a *)
(* kill history and a death history as zrange returns them, ascending.     *)
(***************************************************************************)
SpreeTimes == 1..5
KillTypes == {"human", "minion", "dragon"}
KillRecords == {[timestamp |-> ts, kill_type |-> k] : ts \in SpreeTimes, k \in KillTypes}

SpreeInputs ==
  {[kill_history |-> ZRangeKills(K), death_history |-> ZRangeDeaths(D)] :
     K \in {S \in SUBSET KillRecords : Cardinality(S) <= MaxSpreeKills},
     D \in {S \in SUBSET SpreeTimes : Cardinality(S) <= MaxDeaths}}

SpreeInit ==
  /\ IdlePipeline
  /\ fn_input \in {Some(x) : x \in SpreeInputs}
  /\ fn_output = Absent

\* The call calculate_max_killing_spree(kill_history, death_history).
CallMaxKillingSpree ==
  /\ fn_output = Absent
  /\ fn_output' = Some(calculate_max_killing_spree(Get(fn_input).kill_history,
                                                   Get(fn_input).death_history))
  /\ UNCHANGED <<events_queue, updates_queue, raw_events, next_uuid, running, storeVars,
                 published, ingested, processed, deliveryVars, fn_input, readVars>>

SpreeNext == CallMaxKillingSpree

SpreeSpec == SpreeInit /\ [][SpreeNext]_vars

(***************************************************************************)
(* utils.max_killing_spree_label on its own: the function applied to an    *)
(* integer, as from_database applies it to int(max_killing_spree).         *)
(***************************************************************************)
LabelInputs == (0 - MaxStored)..MaxStored

LabelInit ==
  /\ IdlePipeline
  /\ fn_input \in {Some(x) : x \in LabelInputs}
  /\ fn_output = Absent

\* The call max_killing_spree_label(max_killing_spree).
CallMaxKillingSpreeLabel ==
  /\ fn_output = Absent
  /\ fn_output' = Some(max_killing_spree_label(Get(fn_input)))
  /\ UNCHANGED <<events_queue, updates_queue, raw_events, next_uuid, running, storeVars,
                 published, ingested, processed, deliveryVars, fn_input, readVars>>

LabelNext == CallMaxKillingSpreeLabel

LabelSpec == LabelInit /\ [][LabelNext]_vars

(***************************************************************************)
(* The processors alone: each body goes through ingress and the state-     *)
(* update consumer before the next one is published.                       *)
(***************************************************************************)
Feed(b) ==
  /\ running
  /\ events_queue = << >>
  /\ updates_queue = << >>
  /\ Len(processed) < MaxSteps
  /\ LET event_id == next_uuid + 1
         raw == HSetFam(raw_events, event_id, RawEventHash(b))
         r == process_game_event(Store, HGetAll(raw, event_id))
     IN /\ next_uuid' = event_id
        /\ raw_events' = raw
        /\ published' = Append(published, b)
        /\ ingested' = Append(ingested, [body |-> b, event_id |-> Some(event_id)])
        /\ SetStore(r)
        /\ running' = ~r.raised
        /\ processed' = Append(processed, [event_id |-> event_id, raised |-> r.raised])
  /\ UNCHANGED <<events_queue, updates_queue, deliveryVars, fnVars, readVars>>

ProcNext == \E b \in ProcBodies : Feed(b)

ProcSpec == Init /\ [][ProcNext]_vars

\* The processors alone, fed with ParseBodies.
ParseNext == \E b \in ParseBodies : Feed(b)

ParseSpec == Init /\ [][ParseNext]_vars

\* The processors alone, fed with OptBodies.
OptNext == \E b \in OptBodies : Feed(b)

OptSpec == Init /\ [][OptNext]_vars

\* The processors alone, fed with StartBodies.
StartNext == \E b \in StartBodies : Feed(b)

StartSpec == Init /\ [][StartNext]_vars

\* The processors alone, fed with TurretBodies.
TurretNext == \E b \in TurretBodies : Feed(b)

TurretSpec == Init /\ [][TurretNext]_vars

\* The processors alone, fed with TwoMatchBodies.
TwoMatchNext == \E b \in TwoMatchBodies : Feed(b)

TwoMatchSpec == Init /\ [][TwoMatchNext]_vars

(***************************************************************************)
(* The read path beside the state-update consumer.  from_database and      *)
(* MatchEndProcessor are coroutines of one event loop: each runs without   *)
(* interruption from one await (one store command) to the next.  The other *)
(* processors are taken whole (Feed).                                      *)
(***************************************************************************)
ReadBodies == {StartM1, KillP3, KillP1, EndM1}

\* The keys from_database reads with [] from the three kinds of hash.
GameStateFields ==
  {"match_id", "title", "start_time", "series_type", "series_current", "series_max",
   "winning_team_id", "first_blood"}
TeamStateFields == {"dragon_kills", "tower_kills"}
PlayerStateFields ==
  {"player_id", "name", "alive", "gold", "human_kills", "human_kills_assists",
   "minion_kills", "kill_streaks", "max_killing_spree"}

\* models.PlayerState(...) as from_database builds it from a player hash.
FullPlayerState(player_state_data) ==
  [player_id |-> player_state_data.player_id,
   name |-> player_state_data.name,
   alive |-> player_state_data.alive,
   gold |-> player_state_data.gold,
   human_kills |-> player_state_data.human_kills,
   human_kills_assists |-> player_state_data.human_kills_assists,
   minion_kills |-> player_state_data.minion_kills,
   kill_streaks |-> PlayerState(player_state_data).kill_streaks,
   max_killing_spree |-> PlayerState(player_state_data).max_killing_spree]

\* models.TeamState(...).
FullTeamState(team_id, team_state_data, player_states) ==
  [team_id |-> team_id,
   dragon_kills |-> team_state_data.dragon_kills,
   tower_kills |-> team_state_data.tower_kills,
   players |-> player_states]

\* cls(...) at the end of from_database.
FullGameState(game_state_data, team_states) ==
  [match_id |-> game_state_data.match_id,
   title |-> game_state_data.title,
   start_time |-> game_state_data.start_time,
   series_type |-> game_state_data.series_type,
   series_current |-> game_state_data.series_current,
   series_max |-> game_state_data.series_max,
   winning_team_id |-> game_state_data.winning_team_id,
   first_blood |-> FormatTimestamp(game_state_data.first_blood),
   teams |-> team_states]

\* The two ways a call of from_database ends.
ReadRaised == [reader |-> Absent, output |-> Some([raised |-> TRUE, game_state |-> EmptyMap])]
ReadReturned(game_state) ==
  [reader |-> Absent, output |-> Some([raised |-> FALSE, game_state |-> game_state])]

\* What from_database does after an hgetall until its next await: it goes on
\* with the players of the team, or builds the TeamState and goes on with the
\* next team, or returns; a missing key raises KeyError.
ReaderSettle(r) ==
  IF r.players_left # << >> THEN [reader |-> Some(r), output |-> Absent]
  ELSE IF ~(TeamStateFields \subseteq DOMAIN r.team_state_data) THEN ReadRaised
  ELSE LET team_id == Head(r.teams_left).team_id
           team_states ==
             Merge((team_id :> FullTeamState(team_id, r.team_state_data, r.player_states)),
                   r.team_states)
       IN IF Tail(r.teams_left) # << >>
          THEN [reader |-> Some([r EXCEPT !.teams_left = Tail(@),
                                          !.team_read = FALSE,
                                          !.team_state_data = EmptyMap,
                                          !.player_states = EmptyMap,
                                          !.team_states = team_states]),
                output |-> Absent]
          ELSE IF ~(GameStateFields \subseteq DOMAIN r.game_state_data) THEN ReadRaised
          ELSE ReadReturned(FullGameState(r.game_state_data, team_states))

SetReader(outcome) ==
  /\ reader' = outcome.reader
  /\ fn_output' = outcome.output

readerFrame ==
  <<events_queue, updates_queue, raw_events, next_uuid, running, storeVars, published,
    ingested, processed, deliveryVars, end_task>>

\* Lines 102-105: a call from_database(match_id) reads the match hash.
ReadGame(match_id) ==
  /\ reader = Absent
  /\ fn_input' = Some(match_id)
  /\ LET game_state_data == HGetAll(game, get_game_state_key(match_id))
     IN IF "teams" \notin DOMAIN game_state_data THEN SetReader(ReadRaised)
        ELSE IF game_state_data.teams = << >>
        THEN SetReader(IF GameStateFields \subseteq DOMAIN game_state_data
                       THEN ReadReturned(FullGameState(game_state_data, EmptyMap))
                       ELSE ReadRaised)
        ELSE SetReader([reader |-> Some([match_id |-> match_id,
                                         game_state_data |-> game_state_data,
                                         teams_left |-> game_state_data.teams,
                                         team_read |-> FALSE,
                                         team_state_data |-> EmptyMap,
                                         players_left |-> << >>,
                                         player_states |-> EmptyMap,
                                         team_states |-> EmptyMap]),
                        output |-> Absent])
  /\ UNCHANGED readerFrame

\* Lines 108-112: the hash of the next team of the index.
ReadTeam ==
  /\ Has(reader)
  /\ ~Get(reader).team_read
  /\ LET r == Get(reader)
         team_data == Head(r.teams_left)
     IN SetReader(ReaderSettle(
          [r EXCEPT !.team_read = TRUE,
                    !.team_state_data = HGetAll(team, <<r.match_id, team_data.team_id>>),
                    !.players_left = team_data.players]))
  /\ UNCHANGED <<readerFrame, fn_input>>

\* Lines 114-128: the hash of the next player of the team.
ReadPlayer ==
  /\ Has(reader)
  /\ Get(reader).team_read
  /\ LET r == Get(reader)
         player_id == Head(r.players_left)
         player_state_data == HGetAll(player, <<r.match_id, player_id>>)
     IN IF ~(PlayerStateFields \subseteq DOMAIN player_state_data) THEN SetReader(ReadRaised)
        ELSE SetReader(ReaderSettle(
               [r EXCEPT !.players_left = Tail(@),
                         !.player_states =
                           Merge((player_id :> FullPlayerState(player_state_data)), @)]))
  /\ UNCHANGED <<readerFrame, fn_input>>

\* An event other than MATCH_END, while the consumer is not inside
\* MatchEndProcessor.
FeedOther(b) ==
  /\ end_task = Absent
  /\ b.type # "MATCH_END"
  /\ Feed(b)

\* MATCH_END up to its first await after the write of winning_team_id
\* (processors.py 252-254); the players still to write are those of
\* players_for_match, taken in any order.
BeginMatchEnd(b) ==
  /\ running
  /\ end_task = Absent
  /\ events_queue = << >>
  /\ updates_queue = << >>
  /\ Len(processed) < MaxSteps
  /\ b.type = "MATCH_END"
  /\ LET event_id == next_uuid + 1
         raw == HSetFam(raw_events, event_id, RawEventHash(b))
         stored == HGetAll(raw, event_id)
         event == GameEvent(Merge([payload |-> JsonLoads(stored.payload)], stored))
         all_players == players_for_match(Store, event.match_id)
     IN /\ next_uuid' = event_id
        /\ raw_events' = raw
        /\ published' = Append(published, b)
        /\ ingested' = Append(ingested, [body |-> b, event_id |-> Some(event_id)])
        /\ game' = HSetFam(game, get_game_state_key(event.match_id),
                           [winning_team_id |-> event.payload.winning_team_id])
        /\ IF all_players = {}
           THEN /\ end_task' = Absent
                /\ processed' = Append(processed, [event_id |-> event_id, raised |-> FALSE])
           ELSE /\ end_task' = Some([event_id |-> event_id, match_id |-> event.match_id,
                                     stage |-> "kill_streaks", left |-> all_players])
                /\ processed' = processed
  /\ UNCHANGED <<events_queue, updates_queue, running, team, player, kill_history,
                 death_history, reg_matches, reg_teams, deliveryVars, fnVars, reader>>

\* Lines 265-275: kill_streaks of one more player.
EndWriteKillStreaks ==
  /\ Has(end_task)
  /\ Get(end_task).stage = "kill_streaks"
  /\ \E p \in Get(end_task).left :
       /\ player' = HSetFam(player, get_player_state_key(Store, p),
                            [kill_streaks |-> KillStreaksOf(Store, p)])
       /\ end_task' =
            IF Get(end_task).left = {p}
            THEN Some([Get(end_task) EXCEPT
                         !.stage = "max_killing_spree",
                         !.left = players_for_match(Store, Get(end_task).match_id)])
            ELSE Some([Get(end_task) EXCEPT !.left = @ \ {p}])
  /\ UNCHANGED <<events_queue, updates_queue, raw_events, next_uuid, running, game, team,
                 kill_history, death_history, reg_matches, reg_teams, published, ingested,
                 processed, deliveryVars, fnVars, reader>>

\* Lines 283-292: max_killing_spree of one more player; after the last one
\* the message is acknowledged.
EndWriteMaxKillingSpree ==
  /\ Has(end_task)
  /\ Get(end_task).stage = "max_killing_spree"
  /\ \E p \in Get(end_task).left :
       /\ player' = HSetFam(player, get_player_state_key(Store, p),
                            [max_killing_spree |-> MaxKillingSpreeOf(Store, p)])
       /\ IF Get(end_task).left = {p}
          THEN /\ end_task' = Absent
               /\ processed' = Append(processed, [event_id |-> Get(end_task).event_id,
                                                  raised |-> FALSE])
          ELSE /\ end_task' = Some([Get(end_task) EXCEPT !.left = @ \ {p}])
               /\ processed' = processed
  /\ UNCHANGED <<events_queue, updates_queue, raw_events, next_uuid, running, game, team,
                 kill_history, death_history, reg_matches, reg_teams, published, ingested,
                 deliveryVars, fnVars, reader>>

ReadNext ==
  \/ \E b \in ReadBodies : FeedOther(b)
  \/ \E b \in ReadBodies : BeginMatchEnd(b)
  \/ EndWriteKillStreaks
  \/ EndWriteMaxKillingSpree
  \/ ReadGame("m1")
  \/ ReadTeam
  \/ ReadPlayer

ReadSpec == Init /\ [][ReadNext]_vars

\* The processors alone, fed with KillBodies.
KillNext == \E b \in KillBodies : Feed(b)

KillSpec == Init /\ [][KillNext]_vars

(***************************************************************************)
(* Views of the history.                                                   *)
(***************************************************************************)
SeqMap(F(_), seq) == [i \in 1..Len(seq) |-> F(seq[i])]

ConsumedBodies == SeqMap(LAMBDA e : e.body, ingested)
ForwardedIds ==
  SeqMap(LAMBDA e : Get(e.event_id), SelectSeq(ingested, LAMBDA e : Has(e.event_id)))
ProcessedIds == SeqMap(LAMBDA e : e.event_id, processed)

Count(seq, x) == Cardinality({i \in 1..Len(seq) : seq[i] = x})

\* A message that is a JSON object with a payload.
WellFormed(b) == b.utf8 /\ b.json /\ Has(b.payload)

\* No consumer can take a step: nothing waits, or the process has ended.
AtRest == ~running \/ (events_queue = << >> /\ updates_queue = << >>)

\* Ingress itself failed on a body (a JSON object without a payload).
IngressFailed == \E i \in 1..Len(ingested) : IngressRaises(ingested[i].body)

(***************************************************************************)
(* C1.  Every well-formed message put on game_events is stored under       *)
(* exactly one event id, the id is published exactly once and the event's  *)
(* processor runs exactly once: when the consumers have come to rest, each *)
(* well-formed published message has one ingested entry with an id, a raw  *)
(* event hash under it, and that id is in the processed history once.      *)
(* Stated for the runs in which ingress handled every body it consumed.    *)
(* Checked under Spec.                                                     *)
(***************************************************************************)
C1_ExactlyOnce ==
  (AtRest /\ ~IngressFailed) =>
    \A i \in 1..Len(published) :
      WellFormed(published[i]) =>
        /\ i <= Len(ingested)
        /\ ingested[i].body = published[i]
        /\ Has(ingested[i].event_id)
        /\ Get(ingested[i].event_id) \in DOMAIN raw_events
        /\ Count(ForwardedIds, Get(ingested[i].event_id)) = 1
        /\ Count(ProcessedIds, Get(ingested[i].event_id)) = 1

(***************************************************************************)
(* C2.  Order is preserved end to end: bodies are consumed in the order    *)
(* they were published, and the ids ingress forwarded, in the order it     *)
(* consumed their bodies, are the ids already processed, in processing     *)
(* order, followed by the ids waiting on game_state_updates.               *)
(* Checked under Spec.                                                     *)
(***************************************************************************)
C2_OrderPreserved ==
  /\ ConsumedBodies \o events_queue = published
  /\ ProcessedIds \o updates_queue = ForwardedIds

C2_Witness ==
  /\ Len(processed) >= 2
  /\ updates_queue # << >>
  /\ raw_events[processed[1].event_id] # raw_events[processed[2].event_id]

(***************************************************************************)
(* C10.  A processor failure does not stop the state-update consumer: in   *)
(* every state where some handled event raised, the consumer is running.   *)
(* Checked under Spec.                                                     *)
(***************************************************************************)
C10_ConsumerSurvivesFailure ==
  (\E i \in 1..Len(processed) : processed[i].raised) => running

(***************************************************************************)
(* The processed events, as the state-update consumer parsed them.         *)
(***************************************************************************)
StoredOf(i) == raw_events[processed[i].event_id]

EventDataOf(stored) == Merge([payload |-> JsonLoads(stored.payload)], stored)

\* The GameEvent of the i-th processed id; type_ "INVALID" if validation failed.
EventOf(i) ==
  LET event_data == EventDataOf(StoredOf(i))
  IN IF GameEventInvalid(event_data)
     THEN [type_ |-> "INVALID", match_id |-> None, timestamp |-> Absent, payload |-> None]
     ELSE GameEvent(event_data)

MidGameTypes == {"MINION_KILL", "PLAYER_KILL", "DRAGON_KILL", "TURRET_DESTROY"}

NoneRaised == \A i \in 1..Len(processed) : ~processed[i].raised

StartIndexes(m) ==
  {i \in 1..Len(processed) : EventOf(i).type_ = "MATCH_START" /\ EventOf(i).match_id = m}

SetMin(S) == CHOOSE x \in S : \A y \in S : x <= y
SetMax(S) == CHOOSE x \in S : \A y \in S : x >= y

RECURSIVE SumOver(_, _, _)
SumOver(F(_), lo, hi) == IF lo > hi THEN 0 ELSE F(lo) + SumOver(F, lo + 1, hi)

(***************************************************************************)
(* The per-event rules for the counters, as the design states them (gold   *)
(* and kill counts per player, dragon and tower kills per team).  roster   *)
(* is the teams list of the match's MATCH_START.                           *)
(***************************************************************************)
RosterPlayers(roster) ==
  UNION {{roster[i].players[j].player_id : j \in 1..Len(roster[i].players)} : i \in 1..Len(roster)}

RosterTeams(roster) == {roster[i].team_id : i \in 1..Len(roster)}

RosterTeamOf(roster, p) ==
  LET ts == {i \in 1..Len(roster) :
               \E j \in 1..Len(roster[i].players) : roster[i].players[j].player_id = p}
  IN IF ts = {} THEN None ELSE roster[SetMax(ts)].team_id

RosterGold(roster, p) ==
  LET i == CHOOSE i \in 1..Len(roster) :
             \E j \in 1..Len(roster[i].players) : roster[i].players[j].player_id = p
      j == CHOOSE j \in 1..Len(roster[i].players) : roster[i].players[j].player_id = p
  IN roster[i].players[j].gold

RuleGold(e, p, roster) ==
  LET pl == e.payload
  IN CASE e.type_ = "MINION_KILL" ->
            IF Has(pl.gold_granted) /\ pl.player_id = p THEN Get(pl.gold_granted) ELSE 0
       [] e.type_ = "PLAYER_KILL" ->
            (IF pl.killer_id = p /\ Has(pl.gold_granted) THEN Get(pl.gold_granted) ELSE 0)
            + (IF Has(pl.assistants) /\ Has(pl.assist_gold)
               THEN Get(pl.assist_gold) * Count(Get(pl.assistants), p)
               ELSE 0)
       [] e.type_ = "DRAGON_KILL" ->
            IF Has(pl.gold_granted) /\ pl.killer_id = p THEN Get(pl.gold_granted) ELSE 0
       [] e.type_ = "TURRET_DESTROY" ->
            IF pl.killer_id # None /\ RosterTeamOf(roster, p) = pl.killer_team_id
            THEN (IF p = pl.killer_id
                  THEN (IF Has(pl.player_gold_granted) THEN Get(pl.player_gold_granted) ELSE 0)
                  ELSE (IF Has(pl.team_gold_granted) THEN Get(pl.team_gold_granted) ELSE 0))
            ELSE 0
       [] OTHER -> 0

RuleCount(e, p, field) ==
  LET pl == e.payload
  IN CASE field = "minion_kills" /\ e.type_ = "MINION_KILL" ->
            IF Has(pl.gold_granted) /\ pl.player_id = p THEN 1 ELSE 0
       [] field = "human_kills" /\ e.type_ = "PLAYER_KILL" ->
            IF pl.killer_id = p THEN 1 ELSE 0
       [] field = "human_kills_assists" /\ e.type_ = "PLAYER_KILL" ->
            IF Has(pl.assistants) THEN Count(Get(pl.assistants), p) ELSE 0
       [] OTHER -> 0

RuleTeamCount(e, t, field, roster) ==
  LET pl == e.payload
  IN CASE field = "dragon_kills" /\ e.type_ = "DRAGON_KILL" ->
            IF Has(pl.gold_granted) /\ RosterTeamOf(roster, pl.killer_id) = t THEN 1 ELSE 0
       [] field = "tower_kills" /\ e.type_ = "TURRET_DESTROY" ->
            IF pl.killer_id # None /\ pl.killer_team_id = t THEN 1 ELSE 0
       [] OTHER -> 0

(***************************************************************************)
(* C3.  After a sequence of events is processed (none raised), every       *)
(* counter of a started match equals the sum of the per-event deltas over  *)
(* the events processed after the match's first MATCH_START: gold from the *)
(* MATCH_START value, minion_kills, human_kills, human_kills_assists,      *)
(* dragon_kills and tower_kills from 0.  Checked under ProcSpec.           *)
(***************************************************************************)
C3_CountersAreSums ==
  \A m \in {"m1"} :
    (NoneRaised /\ StartIndexes(m) # {}) =>
      LET first == SetMin(StartIndexes(m))
          roster == EventOf(first).payload.teams
          n == Len(processed)
      IN /\ \A p \in RosterPlayers(roster) :
              /\ player[<<m, p>>].gold =
                   RosterGold(roster, p)
                   + SumOver(LAMBDA i : RuleGold(EventOf(i), p, roster), first + 1, n)
              /\ \A f \in {"minion_kills", "human_kills", "human_kills_assists"} :
                   player[<<m, p>>][f] =
                     SumOver(LAMBDA i : RuleCount(EventOf(i), p, f), first + 1, n)
         /\ \A t \in RosterTeams(roster) :
              \A f \in {"dragon_kills", "tower_kills"} :
                team[<<m, t>>][f] =
                  SumOver(LAMBDA i : RuleTeamCount(EventOf(i), t, f, roster), first + 1, n)

(***************************************************************************)
(* The PLAYER_KILL events of the processed history.                        *)
(***************************************************************************)
\* PLAYER_KILL events with a timestamp, processed after index from.
TimedKillIndexes(from) ==
  {i \in (from + 1)..Len(processed) :
     EventOf(i).type_ = "PLAYER_KILL" /\ Has(EventOf(i).timestamp)}

\* Those of them that name a killer or a victim and were processed without
\* an exception: the ones whose first-blood step ran.
FirstBloodIndexes(from) ==
  {i \in TimedKillIndexes(from) :
     /\ ~processed[i].raised
     /\ (EventOf(i).payload.killer_id # None \/ EventOf(i).payload.victim_id # None)}

TimestampsAt(I) == {Get(EventOf(i).timestamp) : i \in I}

(***************************************************************************)
(* C4 as stated.  After a sequence with at least one PLAYER_KILL that has  *)
(* a timestamp is processed, the match's first_blood is the minimum        *)
(* timestamp over all PLAYER_KILL events with a timestamp.  Stated for the *)
(* runs with one MATCH_START in which no processor raised.                 *)
(* Checked under ProcSpec.                                                 *)
(***************************************************************************)
C4_FirstBloodIsMinOverAllKills ==
  (NoneRaised /\ Cardinality(StartIndexes("m1")) = 1) =>
    LET I == TimedKillIndexes(SetMin(StartIndexes("m1")))
    IN I # {} => game["m1"].first_blood = SetMin(TimestampsAt(I))

(***************************************************************************)
(* C4 amended.  After any processed sequence, the first_blood of a started *)
(* match is the minimum timestamp over the PLAYER_KILL events that have a  *)
(* timestamp, name a killer or a victim, and were processed without an     *)
(* exception after the match's latest MATCH_START, whatever the order in   *)
(* which they were processed; it is the sentinel -1 if there is no such    *)
(* event.  Checked under ProcSpec.                                         *)
(***************************************************************************)
C4_FirstBloodIsMinOverApplied ==
  StartIndexes("m1") # {} =>
    LET I == FirstBloodIndexes(SetMax(StartIndexes("m1")))
    IN game["m1"].first_blood =
         IF I = {} THEN FirstBloodSentinel ELSE SetMin(TimestampsAt(I))

\* Two applied kills, the later-processed one with the earlier timestamp, and
\* a kill without killer and victim whose earlier timestamp was not taken.
C4_Witness ==
  /\ StartIndexes("m1") # {}
  /\ LET last == SetMax(StartIndexes("m1"))
     IN /\ \E i, j \in FirstBloodIndexes(last) :
             /\ i < j
             /\ Get(EventOf(j).timestamp) < Get(EventOf(i).timestamp)
             /\ game["m1"].first_blood = Get(EventOf(j).timestamp)
        /\ \E k \in TimedKillIndexes(last) \ FirstBloodIndexes(last) :
             Get(EventOf(k).timestamp) < game["m1"].first_blood

(***************************************************************************)
(* C5.  Counters never decrease: no step leaves a player's gold,           *)
(* minion_kills, human_kills or human_kills_assists, or a team's           *)
(* dragon_kills or tower_kills, lower than it was before the step.         *)
(* Checked under ProcSpec.                                                 *)
(***************************************************************************)
PlayerCounters == {"gold", "minion_kills", "human_kills", "human_kills_assists"}
TeamCounters == {"dragon_kills", "tower_kills"}

CountersKept(fam, fam2, fields) ==
  \A key \in DOMAIN fam :
    \A f \in fields \cap DOMAIN fam[key] :
      /\ key \in DOMAIN fam2
      /\ f \in DOMAIN fam2[key]
      /\ fam2[key][f] >= fam[key][f]

C5_CountersNeverDecrease ==
  [][CountersKept(player, player', PlayerCounters) /\ CountersKept(team, team', TeamCounters)]_vars

(***************************************************************************)
(* C6.  Once first_blood of a match holds a value other than -1, no step   *)
(* raises it and no step returns it to -1.  Checked under ProcSpec.        *)
(***************************************************************************)
C6_FirstBloodOnlyDecreases ==
  [][\A m \in DOMAIN game :
       ("first_blood" \in DOMAIN game[m] /\ game[m].first_blood # FirstBloodSentinel) =>
         /\ game'[m].first_blood # FirstBloodSentinel
         /\ game'[m].first_blood <= game[m].first_blood]_vars

(***************************************************************************)
(* C9.  Events processed before the MATCH_START of their match are no-ops: *)
(* as long as no MATCH_START was processed, the store and the Player       *)
(* Registry are as they were at the start, empty.  Checked under ProcSpec. *)
(***************************************************************************)
C9_NoOpBeforeMatchStart ==
  StartIndexes("m1") = {} => Store = NoStore

(***************************************************************************)
(* Processing a sequence of bodies from a given state, as the state-update *)
(* consumer does: one after the other, until one raises.                   *)
(***************************************************************************)
RECURSIVE Replay(_, _, _)
Replay(s, bodies, i) ==
  IF i > Len(bodies) \/ s.raised THEN s
  ELSE Replay(process_game_event(s, RawEventHash(bodies[i])), bodies, i + 1)

\* bodies with the entries at i and i + 1 exchanged.
SwapAt(bodies, i) ==
  [k \in 1..Len(bodies) |->
     IF k = i THEN bodies[i + 1] ELSE IF k = i + 1 THEN bodies[i] ELSE bodies[k]]

\* The kill_streaks written for each player record, Absent where none was.
KillStreaksView(s) ==
  [key \in DOMAIN s.player |->
     IF "kill_streaks" \in DOMAIN s.player[key] THEN Some(s.player[key].kill_streaks)
     ELSE Absent]

\* Positions i of the processed history such that the events at i and i + 1
\* are mid-game events lying between a MATCH_START and a later MATCH_END.
SwappablePositions ==
  {i \in 1..(Len(processed) - 1) :
     /\ EventOf(i).type_ \in MidGameTypes
     /\ EventOf(i + 1).type_ \in MidGameTypes
     /\ \E a \in StartIndexes("m1") : a < i
     /\ \E z \in (i + 2)..Len(processed) : EventOf(z).type_ = "MATCH_END"}

(***************************************************************************)
(* C7.  Kill streaks do not depend on the order of ingestion: exchanging   *)
(* two neighbouring mid-game events of the processed sequence, between a   *)
(* MATCH_START and a MATCH_END, and processing the exchanged sequence from *)
(* the empty store leaves every player with the same kill_streaks as the   *)
(* sequence that was processed.  Any reordering of the events between the  *)
(* two is a chain of such exchanges.  Checked under ProcSpec.              *)
(***************************************************************************)
C7_KillStreaksOrderInvariant ==
  \A i \in SwappablePositions :
    KillStreaksView(Replay(NoStore, SwapAt(published, i), 1)) = KillStreaksView(Store)

\* A player's kills were processed against their timestamps' order, and the
\* MATCH_END that followed wrote a streak for that player.
C7_Witness ==
  \E i \in SwappablePositions :
    /\ EventOf(i).type_ \in {"PLAYER_KILL", "DRAGON_KILL"}
    /\ EventOf(i + 1).type_ \in {"PLAYER_KILL", "DRAGON_KILL"}
    /\ EventOf(i).payload.killer_id = "p1"
    /\ EventOf(i + 1).payload.killer_id = "p1"
    /\ Get(EventOf(i + 1).timestamp) < Get(EventOf(i).timestamp)
    /\ EventOf(Len(processed)).type_ = "MATCH_END"
    /\ player[<<"m1", "p1">>].kill_streaks # << >>

(***************************************************************************)
(* One event applied to a state by its processor, whether or not the       *)
(* processing of an earlier event raised.                                  *)
(***************************************************************************)
Apply(s, b) == process_game_event([s EXCEPT !.raised = FALSE], RawEventHash(b))

\* The mid-game bodies of the model, in a fixed enumeration.
MidGameBodies ==
  <<MinionP1, MinionP9, KillP1, KillP3, KillNobody, KillNoAssistGold, DragonP1, TurretT1>>

\* The player and team records (the counters) and the match records
\* (first_blood).
CountersAndFirstBlood(s) == <<s.player, s.team, s.game>>

ConsumesNonJson ==
  /\ events_queue # << >>
  /\ ~Head(events_queue).json
  /\ Len(ingested') = Len(ingested) + 1

C11_MalformedJsonDropped ==
  [][ConsumesNonJson =>
       /\ events_queue' = Tail(events_queue)
       /\ raw_events' = raw_events
       /\ updates_queue' = updates_queue
       /\ UNCHANGED storeVars
       /\ running']_vars

(***************************************************************************)
(* C12.  An event whose type is absent or not one of the six known tags is *)
(* stored raw and its id published by ingress; the state-update stage      *)
(* parses it as UNKNOWN, changes no aggregate record and no registry       *)
(* entry, acknowledges it, and stays alive.  Checked under ErrSpec.        *)
(***************************************************************************)
\* The raw event hash under id has no type, or a type outside the known six.
StoredTypeUnknown(id) ==
  "type" \notin DOMAIN raw_events[id] \/ raw_events[id].type \notin EVENT_TYPES

IngestsUnknownType ==
  /\ events_queue # << >>
  /\ WellFormed(Head(events_queue))
  /\ Head(events_queue).type \notin EVENT_TYPES
  /\ Len(ingested') = Len(ingested) + 1

ProcessesUnknownType ==
  /\ updates_queue # << >>
  /\ StoredTypeUnknown(Head(updates_queue))
  /\ Len(processed') = Len(processed) + 1

C12_UnknownTypeIsHarmless ==
  [][/\ IngestsUnknownType =>
          /\ next_uuid' \notin DOMAIN raw_events
          /\ next_uuid' \in DOMAIN raw_events'
          /\ raw_events'[next_uuid'] = RawEventHash(Head(events_queue))
          /\ updates_queue' = Append(updates_queue, next_uuid')
          /\ events_queue' = Tail(events_queue)
     /\ ProcessesUnknownType =>
          LET event_data == EventDataOf(raw_events[Head(updates_queue)])
          IN /\ ~GameEventInvalid(event_data)
             /\ GameEvent(event_data).type_ = "UNKNOWN"
             /\ UNCHANGED storeVars
             /\ updates_queue' = Tail(updates_queue)
             /\ ~processed'[Len(processed')].raised
             /\ running']_vars

(***************************************************************************)
(* Payload validation.                                                     *)
(***************************************************************************)
\* The payload of an event of this type lacks a field required for the type.
LacksRequiredField(type, payload) ==
  \/ type = "MATCH_START" /\ (payload.fixture = Absent \/ payload.teams = Absent)
  \/ type = "MINION_KILL" /\ payload.playerID = None
  \/ type = "DRAGON_KILL" /\ payload.killerID = None
  \/ type = "MATCH_END" /\ payload.winningTeamID = None

\* The raw event of the id whose processing this step records.
ProcessedNow == raw_events'[processed'[Len(processed')].event_id]

ProcessesLackingField ==
  /\ Len(processed') = Len(processed) + 1
  /\ "type" \in DOMAIN ProcessedNow
  /\ "payload" \in DOMAIN ProcessedNow
  /\ LacksRequiredField(ProcessedNow.type, JsonLoads(ProcessedNow.payload))

\* C13: an event whose payload lacks a field required for its type is
\* rejected at parse in the state-update stage: no aggregate state and no
\* registry entry changes, nothing is raised, the consumer keeps running and
\* the message is gone from the state-updates queue (acknowledged and dropped).
C13_MissingRequiredRejected ==
  [][ProcessesLackingField =>
       /\ UNCHANGED storeVars
       /\ ~processed'[Len(processed')].raised
       /\ running'
       /\ \A i \in 1..Len(updates_queue') :
            updates_queue'[i] # processed'[Len(processed')].event_id]_vars

\* Every kind of missing required field has been processed after a
\* MATCH_START registered the match, and the state is that of the MATCH_START.
C13_Witness ==
  /\ Len(processed) = 4
  /\ published[1] = StartM1
  /\ published[2] = MinionNoPlayer
  /\ published[3] = EndNoWinner
  /\ published[4] \in {DragonNoKiller, StartNoFixture, StartNoTeams}
  /\ NoneRaised
  /\ "winning_team_id" \notin DOMAIN HGetAll(game, get_game_state_key("m1"))
  /\ HGetAll(player, <<"m1", "p1">>).minion_kills = 0

(***************************************************************************)
(* Missing optional fields.                                                *)
(***************************************************************************)
\* The stored event is of a mid-game type and lacks the timestamp or an
\* optional field of its payload.
LacksOptionalField(stored) ==
  LET payload == JsonLoads(stored.payload)
  IN /\ "type" \in DOMAIN stored
     /\ stored.type \in MidGameTypes
     /\ ~LacksRequiredField(stored.type, payload)
     /\ \/ "timestamp" \notin DOMAIN stored
        \/ stored.type \in {"MINION_KILL", "DRAGON_KILL"} /\ payload.goldGranted = Absent
        \/ /\ stored.type = "PLAYER_KILL"
           /\ \/ payload.killerID = None
              \/ payload.victimID = None
              \/ payload.goldGranted = Absent
              \/ payload.assistants = Absent
              \/ payload.assistGold = Absent
        \/ /\ stored.type = "TURRET_DESTROY"
           /\ \/ payload.killerID = None
              \/ payload.killerTeamID = None
              \/ payload.playerGoldGranted = Absent
              \/ payload.teamGoldGranted = Absent

ProcessesLackingOptional ==
  /\ Len(processed') = Len(processed) + 1
  /\ StartIndexes("m1") # {}
  /\ "payload" \in DOMAIN ProcessedNow
  /\ LacksOptionalField(ProcessedNow)

\* C14: processing an event of a started match that lacks an optional
\* payload field or the timestamp raises no error and the message is
\* acknowledged, the consumer going on to the next one.
C14_MissingOptionalNeverRaises ==
  [][ProcessesLackingOptional =>
       /\ ~processed'[Len(processed')].raised
       /\ running']_vars

(***************************************************************************)
(* Failures between consumption and acknowledgement.                       *)
(***************************************************************************)
\* How many deliveries of body b ingress forwarded to the state-update stage.
ForwardedCount(b) ==
  Cardinality({i \in 1..Len(ingested) : ingested[i].body = b /\ Has(ingested[i].event_id)})

\* C15: a well-formed event is never lost to a failure of the store write or
\* of the publish: every published message has been forwarded or is still in
\* the game-events queue, where the broker will deliver it again.
C15_NeverLostOnFailure ==
  \A b \in FaultBodies :
    Count(published, b) <= Count(events_queue, b) + ForwardedCount(b)

(***************************************************************************)
(* Event ids.                                                              *)
(***************************************************************************)
\* The deliveries ingress forwarded.
Forwarded == SelectSeq(ingested, LAMBDA e : Has(e.event_id))

\* The processed MINION_KILL events of player p with a gold grant, after the
\* last MATCH_START of match m.
MinionKillsCounted(m, p) ==
  {i \in 1..Len(processed) :
     /\ i > SetMax(StartIndexes(m))
     /\ EventOf(i).type_ = "MINION_KILL"
     /\ EventOf(i).payload.player_id = p
     /\ Has(EventOf(i).payload.gold_granted)}

\* C16: every delivery ingress forwards gets an event id no earlier delivery
\* got, so each delivery has its own raw event record and its own state-update
\* message, and every processed delivery of a MINION_KILL is counted: the
\* same message delivered twice counts twice.
C16_FreshIdPerDelivery ==
  /\ \A i, j \in 1..Len(Forwarded) :
       i # j => Get(Forwarded[i].event_id) # Get(Forwarded[j].event_id)
  /\ \A i \in 1..Len(Forwarded) :
       /\ Get(Forwarded[i].event_id) \in DOMAIN raw_events
       /\ raw_events[Get(Forwarded[i].event_id)] = RawEventHash(Forwarded[i].body)
  /\ Cardinality(DOMAIN raw_events) = Len(Forwarded)
  /\ Len(updates_queue) + Len(processed) = Len(Forwarded)
  /\ (NoneRaised /\ StartIndexes("m1") # {}) =>
       HGetAll(player, <<"m1", "p1">>).minion_kills = Cardinality(MinionKillsCounted("m1", "p1"))

\* The same MINION_KILL message was delivered twice after MATCH_START: two
\* ids, two raw event records, both processed, two minion kills.
C16_Witness ==
  /\ Len(Forwarded) = 3
  /\ Forwarded[1].body = StartM1
  /\ Forwarded[2].body = MinionP1
  /\ Forwarded[3].body = MinionP1
  /\ Forwarded[2].event_id # Forwarded[3].event_id
  /\ Len(processed) = 3
  /\ NoneRaised
  /\ HGetAll(player, <<"m1", "p1">>).minion_kills = 2

(***************************************************************************)
(* Prefetch.                                                               *)
(***************************************************************************)
\* C17: each consumer holds at most one delivered-but-unacknowledged message.
C17_AtMostOneUnacked ==
  /\ delivered_events <= 1
  /\ delivered_updates <= 1

(***************************************************************************)
(* Players without kills at MATCH_END.                                     *)
(***************************************************************************)
ProcessesMatchEnd(m) ==
  /\ Len(processed') = Len(processed) + 1
  /\ "type" \in DOMAIN ProcessedNow
  /\ ProcessedNow.type = "MATCH_END"
  /\ "matchID" \in DOMAIN ProcessedNow
  /\ ProcessedNow.matchID = m
  /\ ~LacksRequiredField("MATCH_END", JsonLoads(ProcessedNow.payload))

\* C18: when MATCH_END of a match is processed, every player of the match
\* with no kill in the kill history gets kill_streaks = [] and
\* max_killing_spree = 0 stored, and the read path renders that
\* max_killing_spree as absent and the kill_streaks as the empty list.
C18_ZeroKillsAtMatchEnd ==
  [][\A p \in players_for_match(Store, "m1") :
       (ProcessesMatchEnd("m1") /\ ZMembers(kill_history, <<"m1", p>>) = {}) =>
         LET player_state_data == HGetAll(player', <<"m1", p>>)
         IN /\ "kill_streaks" \in DOMAIN player_state_data
            /\ player_state_data.kill_streaks = << >>
            /\ "max_killing_spree" \in DOMAIN player_state_data
            /\ player_state_data.max_killing_spree = 0
            /\ PlayerState(player_state_data).kill_streaks = << >>
            /\ PlayerState(player_state_data).max_killing_spree = None]_vars

\* MATCH_END was processed after p1 made two kills: p1 has a streak, and p2
\* (an assist only) and p3 (a death only) have no kill, the empty list and 0.
C18_Witness ==
  /\ Len(processed) = 4
  /\ published[1] = StartM1
  /\ published[4] = EndM1
  /\ NoneRaised
  /\ HGetAll(player, <<"m1", "p1">>).kill_streaks # << >>
  /\ \A p \in {"p2", "p3"} :
       /\ ZMembers(kill_history, <<"m1", p>>) = {}
       /\ HGetAll(player, <<"m1", p>>).kill_streaks = << >>
       /\ HGetAll(player, <<"m1", p>>).max_killing_spree = 0
  /\ ZMembers(death_history, <<"m1", "p3">>) # {}

(***************************************************************************)
(* calculate_kill_streaks.                                                 *)
(***************************************************************************)
\* Every gap between consecutive timestamps of L is at most W.
AllGapsWithin(L, W) == \A k \in 2..Len(L) : L[k] - L[k - 1] <= W

\* The label of a run of n kills whose last kill is at time t.
RunLabel(n, t) ==
  [label |-> CASE n = 2 -> "Double Kill"
               [] n = 3 -> "Triple Kill"
               [] n = 4 -> "Quadra Kill"
               [] n = 5 -> "Penta Kill",
   at |-> FormatTimestamp(t)]

\* C19: for an ascending list of 2, 3, 4 or 5 timestamps whose consecutive
\* gaps are all within the window, calculate_kill_streaks returns exactly one
\* label, Double, Triple, Quadra or Penta Kill, stamped with the last
\* timestamp.
C19_OneLabelForShortRun ==
  Has(fn_output) =>
    LET L == Get(fn_input).kill_timestamps
        W == Get(fn_input).streak_window
    IN (Len(L) \in 2..5 /\ AllGapsWithin(L, W)) =>
         Get(fn_output) = <<RunLabel(Len(L), L[Len(L)])>>

\* Five kills, each within the window of the one before, the last gap being
\* the window exactly and the whole run longer than the window: one Penta Kill.
C19_Witness ==
  /\ Has(fn_output)
  /\ LET L == Get(fn_input).kill_timestamps
         W == Get(fn_input).streak_window
     IN /\ Len(L) = 5
        /\ AllGapsWithin(L, W)
        /\ L[5] - L[4] = W
        /\ L[5] - L[1] > W
        /\ Len(Get(fn_output)) = 1
        /\ Get(fn_output)[1].label = "Penta Kill"

\* C20: for an ascending list of six or more timestamps whose consecutive
\* gaps are all within the window, the first label is a Penta Kill stamped
\* with the fifth timestamp and the rest of the result is what
\* calculate_kill_streaks returns for the list from the sixth kill on: nothing
\* for six kills, one label of the remaining kills for seven to ten.
C20_RunCappedAtFive ==
  Has(fn_output) =>
    LET L == Get(fn_input).kill_timestamps
        W == Get(fn_input).streak_window
        n == Len(L)
        out == Get(fn_output)
    IN (n >= 6 /\ AllGapsWithin(L, W)) =>
         /\ out # << >>
         /\ out[1] = RunLabel(5, L[5])
         /\ Tail(out) = calculate_kill_streaks(SubSeq(L, 6, n), W)
         /\ n = 6 => out = <<RunLabel(5, L[5])>>
         /\ n \in 7..10 => out = <<RunLabel(5, L[5]), RunLabel(n - 5, L[n])>>

\* Eight kills within the window of each other: a Penta Kill at the fifth and
\* a Triple Kill at the eighth.
C20_Witness ==
  /\ Has(fn_output)
  /\ LET L == Get(fn_input).kill_timestamps
         W == Get(fn_input).streak_window
     IN /\ Len(L) = 8
        /\ AllGapsWithin(L, W)
        /\ L[6] - L[5] = W
        /\ Len(Get(fn_output)) = 2
        /\ Get(fn_output)[1].label = "Penta Kill"
        /\ Get(fn_output)[2].label = "Triple Kill"


(***************************************************************************)
(* The greedy segmentation into runs.                                      *)
(***************************************************************************)
\* The number of kills of the run the k-th kill is in, up to and including
\* the k-th: the kill joins the run of the kill before it iff the gap to that
\* kill is at most W and that run has fewer than 5 kills, else it starts one.
RECURSIVE RunLengthAt(_, _, _)
RunLengthAt(L, W, k) ==
  IF k = 1 THEN 1
  ELSE LET before == RunLengthAt(L, W, k - 1)
       IN IF L[k] - L[k - 1] <= W /\ before < 5 THEN before + 1 ELSE 1

\* The k-th kill is the last of its run.
EndsRun(L, W, k) == k = Len(L) \/ RunLengthAt(L, W, k + 1) = 1

\* The labels of the runs that end at or after the k-th kill, in order.
RECURSIVE GreedyLabelsFrom(_, _, _)
GreedyLabelsFrom(L, W, k) ==
  IF k > Len(L) THEN << >>
  ELSE (IF EndsRun(L, W, k) /\ RunLengthAt(L, W, k) >= 2
        THEN <<RunLabel(RunLengthAt(L, W, k), L[k])>>
        ELSE << >>)
       \o GreedyLabelsFrom(L, W, k + 1)

\* C21: calculate_kill_streaks(L, W) is the chronological list of the labels
\* of the greedy left-to-right segmentation of L into runs: a kill joins the
\* current run iff its gap to the previous kill is <= W and the run has fewer
\* than 5 kills; a run of 2..5 kills yields one label stamped with its last
\* timestamp, a run of one kill yields nothing.
C21_GreedySegmentation ==
  Has(fn_output) =>
    Get(fn_output) = GreedyLabelsFrom(Get(fn_input).kill_timestamps,
                                      Get(fn_input).streak_window, 1)

\* Eight kills: a lone kill, then a run whose gaps are the window exactly and
\* which is longer than the window, then a gap over the window and a pair.
C21_Witness ==
  /\ Has(fn_output)
  /\ LET L == Get(fn_input).kill_timestamps
         W == Get(fn_input).streak_window
     IN /\ Len(L) = 8
        /\ L[2] - L[1] > W
        /\ L[3] - L[2] = W
        /\ L[4] - L[3] = W
        /\ L[5] - L[4] = W
        /\ L[6] - L[5] = W
        /\ L[7] - L[6] > W
        /\ L[8] - L[7] = 0
        /\ Len(Get(fn_output)) = 2
        /\ Get(fn_output)[1] = RunLabel(5, L[6])
        /\ Get(fn_output)[2] = RunLabel(2, L[8])


(***************************************************************************)
(* calculate_max_killing_spree.                                            *)
(***************************************************************************)
\* The timestamps of the human kills of a kill history, as a set.
HumanKillTimes(kill_hist) ==
  {kill_hist[i].timestamp : i \in {j \in 1..Len(kill_hist) : kill_hist[j].kill_type = "human"}}

\* The kill history without the kills at or after time t.
KillsBefore(kill_hist, t) == SelectSeq(kill_hist, LAMBDA k : k.timestamp < t)

HumanKillsInInterval(K, D, i) ==
  Cardinality({k \in HumanKillTimes(K) : (i > 1 => D[i - 1] <= k) /\ k < D[i]})

\* The largest such number, 0 when there is no death.
MaxOverIntervals(K, D) ==
  IF D = << >> THEN 0
  ELSE SetMax({HumanKillsInInterval(K, D, i) : i \in 1..Len(D)})

C24_LabelOfEveryInteger ==
  Has(fn_output) =>
    LET n == Get(fn_input)
        label == Get(fn_output)
    IN /\ n = 3 => label = "Killing Spree"
       /\ n = 4 => label = "Rampage"
       /\ n = 5 => label = "Unstoppable"
       /\ n = 6 => label = "Dominating"
       /\ n >= 7 => label = "Godlike"
       /\ n < 3 => label = None

\* A value above 7 has been labelled Godlike.
C24_Witness ==
  /\ Has(fn_output)
  /\ Get(fn_input) > 7
  /\ Get(fn_output) = "Godlike"


(***************************************************************************)
(* PLAYER_KILL.                                                            *)
(***************************************************************************)
\* The step processes a stored event of this type.
ProcessesType(type) ==
  /\ Len(processed') = Len(processed) + 1
  /\ "type" \in DOMAIN ProcessedNow
  /\ ProcessedNow.type = type
  /\ "payload" \in DOMAIN ProcessedNow

\* The payload of the event the step processes.
PayloadNow == JsonLoads(ProcessedNow.payload)

\* C25: processing a PLAYER_KILL that names neither a killer nor a victim
\* changes no state: no player counter, no kill or death history, no
\* first_blood, whatever its timestamp, goldGranted, assistants and assistGold.
C25_KillOfNobodyChangesNothing ==
  [][(/\ ProcessesType("PLAYER_KILL")
      /\ PayloadNow.killerID = None
      /\ PayloadNow.victimID = None) => UNCHANGED storeVars]_vars


(***************************************************************************)
(* The fields of a player only MATCH_START writes.                         *)
(***************************************************************************)
IdentityFields == {"alive", "name", "player_id", "team_members"}

\* C26: the alive flag, the name, the player_id and the team_members of a
\* player record are written by MATCH_START only: a step that processes any
\* other event leaves them as they are in every player record and creates no
\* player record.
C26_AliveWrittenByMatchStartOnly ==
  [][~ProcessesType("MATCH_START") =>
       \A key \in DOMAIN player' :
         /\ key \in DOMAIN player
         /\ \A f \in IdentityFields :
              /\ f \in DOMAIN player'[key] <=> f \in DOMAIN player[key]
              /\ f \in DOMAIN player[key] => player'[key][f] = player[key][f]]_vars

\* After MATCH_START, p1 (alive in the payload) was killed by p3 and p3 (not
\* alive in the payload) made and assisted nothing but was killed by p1: the
\* flags are those of the payload.
C26_Witness ==
  /\ Len(processed) = 4
  /\ published[1] = StartM1
  /\ \E i, j \in 2..4 : published[i] = KillP3 /\ published[j] = KillP1
  /\ NoneRaised
  /\ ZMembers(death_history, <<"m1", "p1">>) # {}
  /\ HGetAll(player, <<"m1", "p1">>).alive = 1
  /\ HGetAll(player, <<"m1", "p3">>).alive = 0
  /\ HGetAll(player, <<"m1", "p1">>).human_kills = 1


(***************************************************************************)
(* The state MATCH_START leaves.                                           *)
(***************************************************************************)
\* The elements of a sequence.
Range(seq) == {seq[i] : i \in 1..Len(seq)}

\* The step processes a MATCH_START of match m that passes validation.
StartsMatch(m) ==
  /\ ProcessesType("MATCH_START")
  /\ "matchID" \in DOMAIN ProcessedNow
  /\ ProcessedNow.matchID = m
  /\ ~LacksRequiredField("MATCH_START", PayloadNow)

\* The teams of the payload of the MATCH_START the step processes.
RosterNow == Get(PayloadNow.teams)

MatchRecordStarted(m) ==
  /\ m \in DOMAIN game'
  /\ game'[m].first_blood = FirstBloodSentinel
  /\ "winning_team_id" \notin DOMAIN game'[m]

TeamRecordsStarted(m) ==
  \A i \in 1..Len(RosterNow) :
    LET team_state_data == HGetAll(team', <<m, RosterNow[i].team_id>>)
    IN /\ <<m, RosterNow[i].team_id>> \in DOMAIN team'
       /\ team_state_data.dragon_kills = 0
       /\ team_state_data.tower_kills = 0

PlayerRecordsStarted(m) ==
  \A i \in 1..Len(RosterNow) : \A j \in 1..Len(RosterNow[i].players) :
    LET pl == RosterNow[i].players[j]
        others == {RosterNow[i].players[k].player_id : k \in 1..Len(RosterNow[i].players)}
                    \ {pl.player_id}
        player_state_data == HGetAll(player', <<m, pl.player_id>>)
    IN /\ <<m, pl.player_id>> \in DOMAIN player'
       /\ player_state_data.gold = pl.gold
       /\ player_state_data.alive = (IF pl.alive THEN 1 ELSE 0)
       /\ player_state_data.name = pl.name
       /\ player_state_data.minion_kills = 0
       /\ player_state_data.human_kills = 0
       /\ player_state_data.human_kills_assists = 0
       /\ Range(player_state_data.team_members) = others

PlayersRegistered(m) ==
  \A i \in 1..Len(RosterNow) : \A j \in 1..Len(RosterNow[i].players) :
    LET player_id == RosterNow[i].players[j].player_id
    IN /\ player_id \in DOMAIN reg_matches'
       /\ reg_matches'[player_id] = [match_id |-> m, team_id |-> RosterNow[i].team_id]

TeamsRegistered(m) ==
  \A i \in 1..Len(RosterNow) :
    /\ RosterNow[i].team_id \in DOMAIN reg_teams'
    /\ reg_teams'[RosterNow[i].team_id] = m

\* C27: after MATCH_START of m1 is processed the match record has first_blood
\* -1 and no winning_team_id, every team of the payload has a team record with
\* zero counters, every player of the payload has a player record with the
\* payload's gold, alive and name, zero counters and the other players of its
\* team as team_members, and the registry resolves every player of the payload
\* to (m1, its team) and every team of the payload to m1.
C27_StateAfterMatchStart ==
  [][StartsMatch("m1") =>
       /\ MatchRecordStarted("m1")
       /\ TeamRecordsStarted("m1")
       /\ PlayerRecordsStarted("m1")
       /\ PlayersRegistered("m1")
       /\ TeamsRegistered("m1")]_vars


(***************************************************************************)
(* The state MATCH_END leaves.                                             *)
(***************************************************************************)
\* The records of a kill history by ascending timestamp.
RECURSIVE AscendingKills(_)
AscendingKills(S) ==
  IF S = {} THEN << >>
  ELSE LET first == CHOOSE x \in S : \A y \in S : x.timestamp <= y.timestamp
       IN <<first>> \o AscendingKills(S \ {first})

\* The timestamps of a death history in ascending order.
RECURSIVE AscendingDeaths(_)
AscendingDeaths(S) ==
  IF S = {} THEN << >> ELSE <<SetMin(S)>> \o AscendingDeaths(S \ {SetMin(S)})

\* C28: when MATCH_END of the started match m1 is processed, winning_team_id
\* of m1 becomes the payload's winningTeamID and, for every player registered
\* to m1, kill_streaks becomes calculate_kill_streaks of the ascending
\* timestamps of all records of the player's kill history, whatever their
\* kill type, with the configured window, and max_killing_spree becomes
\* calculate_max_killing_spree of the player's kill and death histories.
C28_StateAfterMatchEnd ==
  [][(ProcessesMatchEnd("m1") /\ "m1" \in DOMAIN game) =>
       /\ game'["m1"].winning_team_id = PayloadNow.winningTeamID
       /\ \A p \in players_for_match(Store, "m1") :
            LET kills == AscendingKills(ZMembers(kill_history, <<"m1", p>>))
                deaths == AscendingDeaths(ZMembers(death_history, <<"m1", p>>))
                player_state_data == HGetAll(player', <<"m1", p>>)
            IN /\ player_state_data.kill_streaks =
                    calculate_kill_streaks([i \in 1..Len(kills) |-> kills[i].timestamp],
                                           kill_streak_time_window)
               /\ player_state_data.max_killing_spree =
                    calculate_max_killing_spree(kills, deaths)]_vars

\* MATCH_START, a human kill of p1 at 2, a dragon kill of p1 at 3, MATCH_END:
\* the two kills of different types make one Double Kill, and the spree is 0
\* since p1 never died.
C28_Witness ==
  /\ Len(processed) = 4
  /\ published[1] = StartM1
  /\ {published[2], published[3]} = {KillP1, DragonP1}
  /\ published[4] = EndM1
  /\ NoneRaised
  /\ game["m1"].winning_team_id = "t1"
  /\ HGetAll(player, <<"m1", "p1">>).kill_streaks = <<RunLabel(2, 3)>>
  /\ HGetAll(player, <<"m1", "p1">>).max_killing_spree = 0


(***************************************************************************)
(* The effects of PLAYER_KILL.                                             *)
(***************************************************************************)
\* The assistants of the PLAYER_KILL the step processes.
AssistantsNow ==
  IF Has(PayloadNow.assistants) THEN Range(Get(PayloadNow.assistants)) ELSE {}

OrZero(o) == IF Has(o) THEN Get(o) ELSE 0

\* The player hash of a registered player.
PlayerKeyOf(p) == <<reg_matches[p].match_id, p>>

\* The step processes a PLAYER_KILL with a registered killer, a registered
\* victim, registered assistants and a timestamp, no player in two roles.
ProcessesFullKill ==
  /\ ProcessesType("PLAYER_KILL")
  /\ "timestamp" \in DOMAIN ProcessedNow
  /\ PayloadNow.killerID # None
  /\ PayloadNow.victimID # None
  /\ {PayloadNow.killerID, PayloadNow.victimID} \cup AssistantsNow \subseteq DOMAIN reg_matches
  /\ PayloadNow.killerID # PayloadNow.victimID
  /\ {PayloadNow.killerID, PayloadNow.victimID} \cap AssistantsNow = {}
  /\ Has(PayloadNow.assistants) =>
       Cardinality(AssistantsNow) = Len(Get(PayloadNow.assistants))

PlayerKillEffects ==
  LET k == PlayerKeyOf(PayloadNow.killerID)
      v == PlayerKeyOf(PayloadNow.victimID)
      t == ProcessedNow.timestamp
  IN /\ player'[k].human_kills = player[k].human_kills + 1
     /\ player'[k].gold = player[k].gold + OrZero(PayloadNow.goldGranted)
     /\ [timestamp |-> t, kill_type |-> "human"] \in ZMembers(kill_history', k)
     /\ \A a \in AssistantsNow :
          /\ player'[PlayerKeyOf(a)].gold =
               player[PlayerKeyOf(a)].gold + OrZero(PayloadNow.assistGold)
          /\ player'[PlayerKeyOf(a)].human_kills_assists =
               player[PlayerKeyOf(a)].human_kills_assists + 1
     /\ t \in ZMembers(death_history', v)
     /\ player'[v] = player[v]
     /\ \A key \in DOMAIN player :
          key[2] \notin {PayloadNow.killerID} \cup AssistantsNow => player'[key] = player[key]
     /\ DOMAIN player' = DOMAIN player

\* C29: processing PLAYER_KILL with registered killer k, victim v, assistants
\* A and timestamp t adds 1 to k.human_kills (also without goldGranted) and
\* goldGranted, if present, to k.gold, puts {t, "human"} into k's kill
\* history, adds assistGold to the gold and 1 to human_kills_assists of each
\* assistant, puts t into v's death history, and changes no counter of v and
\* no record of a player outside {k} and A.
C29_PlayerKillEffects ==
  [][ProcessesFullKill => PlayerKillEffects]_vars


(***************************************************************************)
(* The effects of TURRET_DESTROY.                                          *)
(***************************************************************************)
\* The gold a TURRET_DESTROY payload grants to player p of the killer's team.
TurretGoldFor(p) ==
  IF p = PayloadNow.killerID
  THEN OrZero(PayloadNow.playerGoldGranted)
  ELSE OrZero(PayloadNow.teamGoldGranted)

TurretEffects ==
  LET team_key == <<reg_teams[PayloadNow.killerTeamID], PayloadNow.killerTeamID>>
  IN /\ team'[team_key].tower_kills = team[team_key].tower_kills + 1
     /\ team'[team_key].dragon_kills = team[team_key].dragon_kills
     /\ \A key \in DOMAIN team \ {team_key} : team'[key] = team[key]
     /\ DOMAIN team' = DOMAIN team
     /\ DOMAIN player' = DOMAIN player
     /\ \A p \in DOMAIN reg_matches :
          LET player_key == PlayerKeyOf(p)
          IN IF reg_matches[p].team_id = PayloadNow.killerTeamID
             THEN /\ player'[player_key].gold = player[player_key].gold + TurretGoldFor(p)
                  /\ [player'[player_key] EXCEPT !.gold = 0]
                       = [player[player_key] EXCEPT !.gold = 0]
             ELSE player'[player_key] = player[player_key]
     /\ UNCHANGED <<game, kill_history, death_history, reg_matches, reg_teams>>

\* C30: processing TURRET_DESTROY with killerID present and killerTeamID a
\* registered team adds exactly 1 to tower_kills of that team and, for each
\* player registered to the team, playerGoldGranted to the gold of the killer
\* and teamGoldGranted to the gold of every other member, a player's gold
\* staying as it is when the value for that player is absent; nothing else
\* changes, and with killerID absent nothing changes at all.
C30_TurretDestroyEffects ==
  [][ProcessesType("TURRET_DESTROY") =>
       IF PayloadNow.killerID = None THEN UNCHANGED storeVars
       ELSE PayloadNow.killerTeamID \in DOMAIN reg_teams => TurretEffects]_vars

\* After MATCH_START, a turret with both gold fields (p1 gets 5, p2 gets 1),
\* one without gold fields and one without a killer: two tower kills for t1,
\* p1 has 5 + 5, p2 has 0 + 1, p3 of the other team has its gold of 0.
C30_Witness ==
  /\ Len(processed) = 4
  /\ published[1] = StartM1
  /\ {published[2], published[3], published[4]} = {TurretT1, TurretNoGold, TurretNoKiller}
  /\ NoneRaised
  /\ team[<<"m1", "t1">>].tower_kills = 2
  /\ player[<<"m1", "p1">>].gold = 10
  /\ player[<<"m1", "p2">>].gold = 1
  /\ player[<<"m1", "p3">>].gold = 0


(***************************************************************************)
(* Cross-match isolation.                                                  *)
(***************************************************************************)
\* The records of a family keyed <<match, id>> that are not of match m are
\* the same in fam and fam2.
OtherMatchesKept(fam, fam2, m) ==
  \A key \in DOMAIN fam \cup DOMAIN fam2 :
    key[1] # m => key \in DOMAIN fam /\ key \in DOMAIN fam2 /\ fam2[key] = fam[key]

\* C31: processing an event whose matchID is m changes only records stored
\* under keys of match m: the match records, team records, player records,
\* kill histories and death histories of every other match stay as they are.
C31_CrossMatchIsolation ==
  [][(Len(processed') = Len(processed) + 1 /\ "matchID" \in DOMAIN ProcessedNow) =>
       LET m == ProcessedNow.matchID
       IN /\ \A key \in DOMAIN game \cup DOMAIN game' :
               key # m => key \in DOMAIN game /\ key \in DOMAIN game' /\ game'[key] = game[key]
          /\ OtherMatchesKept(team, team', m)
          /\ OtherMatchesKept(player, player', m)
          /\ OtherMatchesKept(kill_history, kill_history', m)
          /\ OtherMatchesKept(death_history, death_history', m)]_vars


(***************************************************************************)
(* The read path beside the consumer.                                      *)
(***************************************************************************)
\* The step is the last one of a call of from_database that returns a view.
ReaderReturns ==
  /\ Has(reader)
  /\ reader' = Absent
  /\ Has(fn_output')
  /\ ~Get(fn_output').raised

\* A MATCH_END of match m has been processed to its end.
MatchEndWritten(m) ==
  \E i \in 1..Len(processed) :
    LET stored == raw_events[processed[i].event_id]
    IN /\ ~processed[i].raised
       /\ "type" \in DOMAIN stored /\ stored.type = "MATCH_END"
       /\ "matchID" \in DOMAIN stored /\ stored.matchID = m

\* MATCH_END of m1 was published once and is the last event published.
OneMatchEndLast ==
  /\ published # << >>
  /\ published[Len(published)].type = "MATCH_END"
  /\ published[Len(published)].matchID = "m1"
  /\ Cardinality({i \in 1..Len(published) : published[i].type = "MATCH_END"}) = 1

\* The view of match m read from the store as it is now, all at once.
ViewOfStore(m) ==
  LET index == game[m].teams
      team_ids == {index[i].team_id : i \in 1..Len(index)}
  IN FullGameState(
       game[m],
       [team_id \in team_ids |->
          LET i == CHOOSE j \in 1..Len(index) : index[j].team_id = team_id
          IN FullTeamState(team_id, team[<<m, team_id>>],
                           [p \in Range(index[i].players) |->
                              FullPlayerState(player[<<m, p>>])])])

\* C32: a call of from_database(m1) that runs beside the consumer returns a
\* view only after a MATCH_END of m1 has written winning_team_id and the
\* kill_streaks and max_killing_spree of every player of m1; and when
\* MATCH_END is the one last event of the match, the view returned is the
\* view of the store after every event of the match, with the derived fields
\* computed from the final histories.
C32_ReadReturnsFinalizedView ==
  [][ReaderReturns =>
       /\ MatchEndWritten("m1")
       /\ "winning_team_id" \in DOMAIN game["m1"]
       /\ \A p \in players_for_match(Store, "m1") :
            {"kill_streaks", "max_killing_spree"} \subseteq DOMAIN player[<<"m1", p>>]
       /\ OneMatchEndLast =>
            /\ end_task = Absent
            /\ Get(fn_output').game_state = ViewOfStore("m1")
            /\ \A p \in players_for_match(Store, "m1") :
                 /\ player[<<"m1", p>>].kill_streaks = KillStreaksOf(Store, p)
                 /\ player[<<"m1", p>>].max_killing_spree = MaxKillingSpreeOf(Store, p)]_vars

\* A view returned after MATCH_START, the kill of p1 by p3 at 1, the kill of
\* p3 by p1 at 2 and MATCH_END.
C32_Witness ==
  /\ published = <<StartM1, KillP3, KillP1, EndM1>>
  /\ reader = Absent
  /\ Has(fn_output)
  /\ ~Get(fn_output).raised
  /\ Get(fn_output).game_state.winning_team_id = "t1"
  /\ Get(fn_output).game_state.first_blood = FormatTimestamp(1)
  /\ Get(fn_output).game_state.teams["t1"].players["p1"].human_kills = 1
  /\ Get(fn_output).game_state.teams["t2"].players["p3"].kill_streaks = << >>


(***************************************************************************)
(* Persist before publish.                                                 *)
(***************************************************************************)
\* The raw event hash of an id is in the store and has a payload field.
RawEventStored(event_id) ==
  /\ event_id \in DOMAIN raw_events
  /\ raw_events[event_id] # EmptyMap
  /\ "payload" \in DOMAIN raw_events[event_id]

\* C33: every event id on the state-updates queue, and every id the
\* state-update consumer has taken from it, has a non-empty raw event hash
\* with a payload field in the store.
C33_PersistBeforePublish ==
  /\ \A i \in 1..Len(updates_queue) : RawEventStored(updates_queue[i])
  /\ \A i \in 1..Len(processed) : RawEventStored(processed[i].event_id)

\* Two ids wait on the state-updates queue and one has been handled.
C33_Witness ==
  /\ Len(updates_queue) >= 2
  /\ Len(processed) >= 1
  /\ \A i \in 1..Len(updates_queue) : "type" \in DOMAIN raw_events[updates_queue[i]]


(***************************************************************************)
(* The derived fields after MATCH_END.                                     *)
(***************************************************************************)
\* C34: once a MATCH_END of the started match m1 has been processed, in every later state the
\* stored kill_streaks and max_killing_spree of every player of m1 are the
\* derivations of the player's kill and death histories as they are now: no
\* event processed after MATCH_END makes them stale.
C34_DerivedFieldsStayFinal ==
  (\E a \in StartIndexes("m1") : \E z \in (a + 1)..Len(processed) :
     EventOf(z).type_ = "MATCH_END" /\ EventOf(z).match_id = "m1") =>
    \A p \in players_for_match(Store, "m1") :
      LET player_state_data == HGetAll(player, <<"m1", p>>)
      IN /\ {"kill_streaks", "max_killing_spree"} \subseteq DOMAIN player_state_data
         /\ player_state_data.kill_streaks = KillStreaksOf(Store, p)
         /\ player_state_data.max_killing_spree = MaxKillingSpreeOf(Store, p)


(***************************************************************************)
(* MATCH_END twice.                                                        *)
(***************************************************************************)
\* The step processes the MATCH_END that the step before it processed.
RepeatsMatchEnd ==
  /\ ProcessesType("MATCH_END")
  /\ ~LacksRequiredField("MATCH_END", PayloadNow)
  /\ Len(processed) >= 1
  /\ ~processed[Len(processed)].raised
  /\ Len(published) = Len(processed)
  /\ published'[Len(published')] = published[Len(published)]

\* C35: processing the same MATCH_END a second time, no other event in
\* between, leaves the store as the first processing left it: winning_team_id,
\* kill_streaks and max_killing_spree of every player, counters, histories.
C35_MatchEndIdempotent ==
  [][RepeatsMatchEnd => UNCHANGED storeVars]_vars

\* MATCH_START, the kill of p3 by p1, and MATCH_END twice.
C35_Witness ==
  /\ published = <<StartM1, KillP1, EndM1, EndM1>>
  /\ Len(processed) = 4
  /\ NoneRaised
  /\ game["m1"].winning_team_id = "t1"
  /\ player[<<"m1", "p1">>].human_kills = 1
  /\ player[<<"m1", "p1">>].kill_streaks = << >>
  /\ player[<<"m1", "p3">>].max_killing_spree = 0


(***************************************************************************)
(* Kill history and kill counter.                                          *)
(***************************************************************************)
\* The processed PLAYER_KILL events of registered killer p that carried a
\* timestamp: those processed after the MATCH_START that registered p.
TimedKillsBy(p) ==
  {i \in 1..Len(processed) :
     /\ EventOf(i).type_ = "PLAYER_KILL"
     /\ EventOf(i).payload.killer_id = p
     /\ Has(EventOf(i).timestamp)
     /\ \E a \in StartIndexes("m1") : a < i}

HumanRecords(p) ==
  {k \in ZMembers(kill_history, <<"m1", p>>) : k.kill_type = "human"}

\* C36: in every state, for every player, the number of "human" records in
\* the player's kill history is the number of processed PLAYER_KILL events
\* that named the player as killer and carried a timestamp, also when two of
\* them carry the same timestamp or one event is delivered twice.
C36_KillHistoryMatchesKills ==
  \A p \in DOMAIN reg_matches :
    Cardinality(HumanRecords(p)) = Cardinality(TimedKillsBy(p))

====
